---- MODULE Spec2Model ----
(***************************************************************************)
(* Percentile benchmarking engine of the startup-evaluation backend:       *)
(* backend/app/services/benchmarking_service.py and its near-duplicates in *)
(* backend/app/api/routes/benchmarks.py and                                *)
(* backend/app/services/ai_analyzer.py.                                    *)
(*                                                                         *)
(* Python floats are modelled as exact rationals [num, den] in lowest      *)
(* terms with den > 0.  Metric values and percentile points are integers   *)
(* in one common unit (hundredths for the seeded table): every formula of  *)
(* the ranker uses its inputs only in comparisons and in ratios of         *)
(* differences, so the unit cancels.  A float division by zero raises      *)
(* ZeroDivisionError in Python; that outcome is modelled explicitly.       *)
(***************************************************************************)
EXTENDS Integers, Sequences, FiniteSets, TLC

VARIABLES benchmark_cache, call, load, progress_data, task

vars == <<benchmark_cache, call, load, progress_data, task>>

(* ------------------------------ bounds --------------------------------- *)

\* percentile points of the enumerated distributions range over -NegP..MaxP
NegP == 4
MaxP == 6
\* ranks handed to the classifiers are the fractions a/b with b <= MaxRatingDen
MaxRatingDen == 20
\* a startup supplies at most MaxMetrics metrics to benchmark_startup
MaxMetrics == 2
\* an analysis carries at most MaxFlags risk flags
MaxFlags == 3
\* a custom thesis names at most MaxCriteria scoring preferences
MaxCriteria == 3
\* a comparison is given at most MaxStartups startups
MaxStartups == 3

(* ------------------------- float arithmetic ---------------------------- *)

Abs(x) == IF x < 0 THEN -x ELSE x

RECURSIVE GCD(_, _)
GCD(a, b) == IF b = 0 THEN a ELSE GCD(b, a % b)

\* the rational n/d (d # 0) in lowest terms with a positive denominator
Rat(n, d) ==
    LET s == IF d < 0 THEN -1 ELSE 1
        g == GCD(Abs(n), Abs(d))
    IN  [num |-> (s * n) \div g, den |-> (s * d) \div g]

RAdd(a, b) == Rat(a.num * b.den + b.num * a.den, a.den * b.den)
RMul(a, b) == Rat(a.num * b.num, a.den * b.den)
RLeq(a, b) == a.num * b.den <= b.num * a.den
RLt(a, b) == a.num * b.den < b.num * a.den
RGeq(a, b) == RLeq(b, a)
\* Python's min(a, b)
RMin(a, b) == IF RLt(b, a) THEN b ELSE a

\* outcome of a call: a returned float, or an exception raised to the caller
Returned(r) == [raised |-> FALSE, value |-> r]
ZeroDivisionError == [raised |-> TRUE, value |-> Rat(0, 1)]

\* c + k * (a / b) as Python evaluates it: the division raises when b = 0
Interpolate(c, k, a, b) ==
    IF b = 0 THEN ZeroDivisionError
    ELSE Returned(RAdd(c, RMul(k, Rat(a, b))))

(* --------------------------- Percentile Ranker ------------------------- *)

\* the service ranker with strict comparisons selecting the segment
RankStrictComparisons(value, p25, p50, p75, p90) ==
    IF value < p25 THEN
        IF p25 > 0 THEN Returned(RMul(Rat(1, 4), Rat(value, p25)))
        ELSE Returned(Rat(0, 1))
    ELSE IF value < p50 THEN
        Interpolate(Rat(1, 4), Rat(1, 4), value - p25, p50 - p25)
    ELSE IF value < p75 THEN
        Interpolate(Rat(1, 2), Rat(1, 4), value - p50, p75 - p50)
    ELSE IF value < p90 THEN
        Interpolate(Rat(3, 4), Rat(3, 20), value - p75, p90 - p75)
    ELSE
        IF p90 = 0 THEN ZeroDivisionError
        ELSE Returned(RAdd(Rat(9, 10),
                           RMul(Rat(1, 10), RMin(Rat(1, 1), Rat(value - p90, p90)))))

\* the route ranker with the quartile slope 0.25 copied into the p75..p90 segment
RankQuarterSlopeAboveP75(value, p25, p50, p75, p90) ==
    IF value <= p25 THEN
        IF p25 > 0 THEN Returned(RMul(Rat(1, 4), Rat(value, p25)))
        ELSE Returned(Rat(0, 1))
    ELSE IF value <= p50 THEN
        Interpolate(Rat(1, 4), Rat(1, 4), value - p25, p50 - p25)
    ELSE IF value <= p75 THEN
        Interpolate(Rat(1, 2), Rat(1, 4), value - p50, p75 - p50)
    ELSE IF value <= p90 THEN
        Interpolate(Rat(3, 4), Rat(1, 4), value - p75, p90 - p75)
    ELSE
        IF p90 = 0 THEN ZeroDivisionError
        ELSE Returned(RAdd(Rat(9, 10),
                           RMul(Rat(1, 10), RMin(Rat(1, 1), Rat(value - p90, p90)))))

\* BenchmarkingService._calculate_percentile_rank
BenchmarkingService_calculate_percentile_rank(value, p25, p50, p75, p90) ==
    IF value <= p25 THEN
        IF p25 > 0 THEN Returned(RMul(Rat(1, 4), Rat(value, p25)))
        ELSE Returned(Rat(0, 1))
    ELSE IF value <= p50 THEN
        Interpolate(Rat(1, 4), Rat(1, 4), value - p25, p50 - p25)
    ELSE IF value <= p75 THEN
        Interpolate(Rat(1, 2), Rat(1, 4), value - p50, p75 - p50)
    ELSE IF value <= p90 THEN
        Interpolate(Rat(3, 4), Rat(3, 20), value - p75, p90 - p75)
    ELSE
        IF p90 = 0 THEN ZeroDivisionError
        ELSE Returned(RAdd(Rat(9, 10),
                           RMul(Rat(1, 10), RMin(Rat(1, 1), Rat(value - p90, p90)))))

\* routes/benchmarks.py calculate_percentile_rank (module-level duplicate)
calculate_percentile_rank(value, p25, p50, p75, p90) ==
    IF value <= p25 THEN
        IF p25 > 0 THEN Returned(RMul(Rat(1, 4), Rat(value, p25)))
        ELSE Returned(Rat(0, 1))
    ELSE IF value <= p50 THEN
        Interpolate(Rat(1, 4), Rat(1, 4), value - p25, p50 - p25)
    ELSE IF value <= p75 THEN
        Interpolate(Rat(1, 2), Rat(1, 4), value - p50, p75 - p50)
    ELSE IF value <= p90 THEN
        Interpolate(Rat(3, 4), Rat(3, 20), value - p75, p90 - p75)
    ELSE
        IF p90 = 0 THEN ZeroDivisionError
        ELSE Returned(RAdd(Rat(9, 10),
                           RMul(Rat(1, 10), RMin(Rat(1, 1), Rat(value - p90, p90)))))

(* ------------------------- Performance Classifier ---------------------- *)

\* the route classifier with the 0.75 boundary made exclusive
RatingExclusiveAt75(percentile_rank) ==
    IF RGeq(percentile_rank, Rat(9, 10)) THEN "Excellent"
    ELSE IF RLt(Rat(3, 4), percentile_rank) THEN "Above Average"
    ELSE IF RGeq(percentile_rank, Rat(1, 2)) THEN "Average"
    ELSE IF RGeq(percentile_rank, Rat(1, 4)) THEN "Below Average"
    ELSE "Poor"

\* BenchmarkingService._get_performance_rating
BenchmarkingService_get_performance_rating(percentile_rank) ==
    IF RGeq(percentile_rank, Rat(9, 10)) THEN "Excellent"
    ELSE IF RGeq(percentile_rank, Rat(3, 4)) THEN "Above Average"
    ELSE IF RGeq(percentile_rank, Rat(1, 2)) THEN "Average"
    ELSE IF RGeq(percentile_rank, Rat(1, 4)) THEN "Below Average"
    ELSE "Poor"

\* routes/benchmarks.py get_performance_rating
get_performance_rating(percentile_rank) ==
    IF RGeq(percentile_rank, Rat(9, 10)) THEN "Excellent"
    ELSE IF RGeq(percentile_rank, Rat(3, 4)) THEN "Above Average"
    ELSE IF RGeq(percentile_rank, Rat(1, 2)) THEN "Average"
    ELSE IF RGeq(percentile_rank, Rat(1, 4)) THEN "Below Average"
    ELSE "Poor"

\* AIAnalyzer._calculate_performance_rating
AIAnalyzer_calculate_performance_rating(percentile_rank) ==
    IF RGeq(percentile_rank, Rat(9, 10)) THEN "Excellent"
    ELSE IF RGeq(percentile_rank, Rat(3, 4)) THEN "Above Average"
    ELSE IF RGeq(percentile_rank, Rat(1, 2)) THEN "Average"
    ELSE IF RGeq(percentile_rank, Rat(1, 4)) THEN "Below Average"
    ELSE "Poor"

(* --------------------------- Benchmark Repository ---------------------- *)

\* one benchmark record of the cache; the four points are in hundredths
Row(sector, stage, metric_name, p25, p50, p75, p90, sample_size) ==
    [sector |-> sector, stage |-> stage, metric_name |-> metric_name,
     p25 |-> p25, p50 |-> p50, p75 |-> p75, p90 |-> p90,
     sample_size |-> sample_size]

\* the benchmark_data list of _create_sample_benchmark_data, in hundredths
\* (0.15 is 15, 50.0 is 5000)
SampleBenchmarkData ==
    <<
        Row("fintech", "seed", "revenue_growth_rate", 15, 30, 50, 75, 150),
        Row("fintech", "seed", "customer_acquisition_cost", 5000, 12000, 20000, 35000, 145),
        Row("fintech", "seed", "monthly_recurring_revenue", 2500000, 7500000, 15000000, 30000000, 120),
        Row("fintech", "seed", "gross_margin", 45, 65, 80, 90, 180),
        Row("fintech", "seed", "employee_count", 500, 1200, 2000, 3500, 200),
        Row("fintech", "series_a", "revenue_growth_rate", 25, 45, 70, 100, 120),
        Row("fintech", "series_a", "customer_acquisition_cost", 8000, 15000, 25000, 40000, 115),
        Row("fintech", "series_a", "monthly_recurring_revenue", 10000000, 30000000, 60000000, 120000000, 100),
        Row("healthtech", "seed", "revenue_growth_rate", 20, 35, 55, 80, 80),
        Row("healthtech", "seed", "customer_acquisition_cost", 10000, 20000, 35000, 50000, 75),
        Row("healthtech", "seed", "gross_margin", 50, 70, 85, 95, 90),
        Row("ai_ml", "seed", "revenue_growth_rate", 30, 50, 80, 120, 60),
        Row("ai_ml", "seed", "customer_acquisition_cost", 7500, 15000, 30000, 50000, 55),
        Row("ai_ml", "seed", "gross_margin", 60, 75, 85, 95, 65),
        Row("edtech", "seed", "revenue_growth_rate", 25, 40, 65, 90, 70),
        Row("edtech", "seed", "customer_acquisition_cost", 3000, 8000, 15000, 25000, 68),
        Row("edtech", "seed", "gross_margin", 55, 70, 80, 90, 72),
        Row("saas", "seed", "revenue_growth_rate", 20, 35, 60, 85, 200),
        Row("saas", "seed", "customer_acquisition_cost", 6000, 12000, 20000, 30000, 195),
        Row("saas", "seed", "monthly_recurring_revenue", 2000000, 6000000, 12000000, 25000000, 180),
        Row("saas", "seed", "gross_margin", 65, 75, 85, 92, 210)
    >>

\* str.lower() on the sector and stage strings the model supplies
Lower(s) ==
    CASE s = "FinTech" -> "fintech"
      [] s = "SEED" -> "seed"
      [] OTHER -> s

\* str.replace("_", " ").title() on the metric names the model supplies
Title(s) ==
    CASE s = "revenue_growth_rate" -> "Revenue Growth Rate"
      [] s = "customer_acquisition_cost" -> "Customer Acquisition Cost"
      [] s = "monthly_recurring_revenue" -> "Monthly Recurring Revenue"
      [] s = "gross_margin" -> "Gross Margin"
      [] s = "employee_count" -> "Employee Count"
      [] s = "burn_rate" -> "Burn Rate"
      [] OTHER -> s

\* get_sector_benchmarks comparing the requested sector and stage as given
SectorBenchmarksCaseSensitive(cache, sector, stage, metrics) ==
    IF ~cache.loaded THEN <<>>
    ELSE
        LET InPair(b) == b.sector = sector /\ b.stage = stage
            InMetrics(b) == b.metric_name \in metrics
            filtered_benchmarks == SelectSeq(cache.rows, InPair)
        IN  IF metrics # {} THEN SelectSeq(filtered_benchmarks, InMetrics)
            ELSE filtered_benchmarks

\* get_sector_benchmarks: metrics is the set of requested names, {} for None
\* or an empty list (both falsy).  Before _create_sample_benchmark_data has
\* assigned self.benchmark_cache the attribute read raises AttributeError,
\* which the except clause turns into [].
get_sector_benchmarks(cache, sector, stage, metrics) ==
    IF ~cache.loaded THEN <<>>
    ELSE
        LET InPair(b) == b.sector = Lower(sector) /\ b.stage = Lower(stage)
            InMetrics(b) == b.metric_name \in metrics
            filtered_benchmarks == SelectSeq(cache.rows, InPair)
        IN  IF metrics # {} THEN SelectSeq(filtered_benchmarks, InMetrics)
            ELSE filtered_benchmarks

\* BenchmarkData with the sector median taken from p25
BenchmarkDataMedianFromP25(metric_name, startup_value, benchmark, percentile_rank) ==
    [metric_name |-> Title(metric_name),
     startup_value |-> startup_value,
     sector_median |-> benchmark.p25,
     sector_p75 |-> benchmark.p75,
     sector_p90 |-> benchmark.p90,
     percentile_rank |-> percentile_rank,
     performance_rating |-> BenchmarkingService_get_performance_rating(percentile_rank)]

\* the BenchmarkData appended for one matched metric
BenchmarkData(metric_name, startup_value, benchmark, percentile_rank) ==
    [metric_name |-> Title(metric_name),
     startup_value |-> startup_value,
     sector_median |-> benchmark.p50,
     sector_p75 |-> benchmark.p75,
     sector_p90 |-> benchmark.p90,
     percentile_rank |-> percentile_rank,
     performance_rating |-> BenchmarkingService_get_performance_rating(percentile_rank)]

\* the loop of benchmark_startup over startup_metrics.items(); a fault of the
\* ranker leaves the loop: its division by zero, or the TypeError of its
\* first comparison when the startup value is not a number
RECURSIVE BenchmarkLoop(_, _, _)
BenchmarkLoop(startup_metrics, sector_benchmarks, benchmark_results) ==
    IF startup_metrics = <<>>
    THEN [raised |-> FALSE, results |-> benchmark_results]
    ELSE
        LET metric_name == Head(startup_metrics).name
            startup_value == Head(startup_metrics).value
            Matches(b) == b.metric_name = metric_name
            matching == SelectSeq(sector_benchmarks, Matches)
        IN  IF matching = <<>>
            THEN BenchmarkLoop(Tail(startup_metrics), sector_benchmarks,
                               benchmark_results)
            ELSE
                LET benchmark == Head(matching)
                    rank == BenchmarkingService_calculate_percentile_rank(
                                startup_value, benchmark.p25, benchmark.p50,
                                benchmark.p75, benchmark.p90)
                IN  IF ~Head(startup_metrics).numeric \/ rank.raised
                    THEN [raised |-> TRUE, results |-> <<>>]
                    ELSE BenchmarkLoop(
                             Tail(startup_metrics), sector_benchmarks,
                             Append(benchmark_results,
                                    BenchmarkData(metric_name, startup_value,
                                                  benchmark, rank.value)))

\* benchmark_startup scoring a metric without a distribution as rank 0
\* instead of skipping it
BenchmarkStartupUnmatchedAsZero(cache, startup_metrics, sector, stage) ==
    LET sector_benchmarks == get_sector_benchmarks(cache, sector, stage, {})
        Matching(m) ==
            LET Matches(b) == b.metric_name = m.name
            IN  SelectSeq(sector_benchmarks, Matches)
        Entry(m) ==
            IF Matching(m) = <<>>
            THEN [metric_name |-> Title(m.name), startup_value |-> m.value,
                  sector_median |-> 0, sector_p75 |-> 0, sector_p90 |-> 0,
                  percentile_rank |-> Rat(0, 1), performance_rating |-> "Poor"]
            ELSE LET benchmark == Head(Matching(m))
                 IN  BenchmarkData(
                         m.name, m.value, benchmark,
                         BenchmarkingService_calculate_percentile_rank(
                             m.value, benchmark.p25, benchmark.p50,
                             benchmark.p75, benchmark.p90).value)
    IN  [i \in 1..Len(startup_metrics) |-> Entry(startup_metrics[i])]

\* benchmark_startup: any exception is logged and answered with []
benchmark_startup(cache, startup_metrics, sector, stage) ==
    LET sector_benchmarks == get_sector_benchmarks(cache, sector, stage, {})
        done == BenchmarkLoop(startup_metrics, sector_benchmarks, <<>>)
    IN  IF done.raised THEN <<>> ELSE done.results

(* ----------------------------- Composite Scorer -------------------------- *)

\* the six components, in the order _calculate_overall_score sums them
Components ==
    <<"financial_health", "market_opportunity", "team_strength",
      "traction", "product_technology", "competitive_position">>
ComponentSet == {Components[i] : i \in 1..Len(Components)}

\* default_weights with the traction weight mistyped as 0.20
DefaultWeightTraction20(c) ==
    CASE c = "financial_health" -> Rat(25, 100)
      [] c = "market_opportunity" -> Rat(20, 100)
      [] c = "team_strength" -> Rat(20, 100)
      [] c = "traction" -> Rat(20, 100)
      [] c = "product_technology" -> Rat(10, 100)
      [] c = "competitive_position" -> Rat(10, 100)

\* default_weights, which are also the defaults of the weights.get(...) calls
DefaultWeight(c) ==
    CASE c = "financial_health" -> Rat(25, 100)
      [] c = "market_opportunity" -> Rat(20, 100)
      [] c = "team_strength" -> Rat(20, 100)
      [] c = "traction" -> Rat(15, 100)
      [] c = "product_technology" -> Rat(10, 100)
      [] c = "competitive_position" -> Rat(10, 100)

\* the component scorers of the repository return fixed scores
StubScore(c) ==
    CASE c = "financial_health" -> Rat(75, 1)
      [] c = "market_opportunity" -> Rat(80, 1)
      [] c = "team_strength" -> Rat(85, 1)
      [] c = "traction" -> Rat(70, 1)
      [] c = "product_technology" -> Rat(78, 1)
      [] c = "competitive_position" -> Rat(72, 1)

\* a value stored in a weight mapping: a number, or something that is not one
Number(r) == [numeric |-> TRUE, value |-> r]
NotANumber == [numeric |-> FALSE, value |-> Rat(0, 1)]

\* custom_weightings: None, a dict (items), or a non-empty object that is
\* not a mapping
NoWeightings == [kind |-> "none", items |-> <<>>]
WeightDict(items) == [kind |-> "dict", items |-> items]
NotAMapping == [kind |-> "list", items |-> <<>>]

\* `custom_weightings or default_weights`: None and {} are falsy
UsesDefaultWeights(custom_weightings) ==
    \/ custom_weightings.kind = "none"
    \/ custom_weightings.kind = "dict" /\ DOMAIN custom_weightings.items = {}

\* weights.get(c, default) with the default 0 for every component
WeightGetDefaultZero(custom_weightings, c) ==
    IF UsesDefaultWeights(custom_weightings) THEN Number(DefaultWeight(c))
    ELSE IF c \in DOMAIN custom_weightings.items THEN custom_weightings.items[c]
    ELSE Number(Rat(0, 1))

\* weights.get(c, <default weight of c>) on the mapping in use
WeightGet(custom_weightings, c) ==
    IF UsesDefaultWeights(custom_weightings) THEN Number(DefaultWeight(c))
    ELSE IF c \in DOMAIN custom_weightings.items THEN custom_weightings.items[c]
    ELSE Number(DefaultWeight(c))

\* _calculate_risk_penalty without the cap
RiskPenaltyUncapped(risk_flags) ==
    LET Points15(s) == CASE s = "critical" -> 15 [] s = "high" -> 10
                         [] s = "medium" -> 5 [] OTHER -> 2
        RECURSIVE Sum(_)
        Sum(i) == IF i = 0 THEN 0 ELSE Sum(i - 1) + Points15(risk_flags[i].severity)
    IN  Rat(Sum(Len(risk_flags)), 1)

\* AIAnalyzer._calculate_risk_penalty
AIAnalyzer_calculate_risk_penalty(risk_flags) ==
    LET Step(penalty, risk) ==
            IF risk.severity = "critical" THEN penalty + 15
            ELSE IF risk.severity = "high" THEN penalty + 10
            ELSE IF risk.severity = "medium" THEN penalty + 5
            ELSE penalty + 2
        RECURSIVE Loop(_)
        Loop(i) == IF i = 0 THEN 0 ELSE Step(Loop(i - 1), risk_flags[i])
    IN  RMin(Rat(Loop(Len(risk_flags)), 1), Rat(30, 1))

\* the weighted sum of the first i components, left to right: a mapping
\* without .get raises AttributeError, a score times a non-number TypeError
RECURSIVE WeightedSum(_, _, _)
WeightedSum(scores, custom_weightings, i) ==
    IF i = 0 THEN [error |-> "none", value |-> Rat(0, 1)]
    ELSE
        LET before == WeightedSum(scores, custom_weightings, i - 1)
            c == Components[i]
        IN  IF before.error # "none" THEN before
            ELSE IF custom_weightings.kind = "list"
            THEN [error |-> "AttributeError", value |-> Rat(0, 1)]
            ELSE IF ~WeightGet(custom_weightings, c).numeric
            THEN [error |-> "TypeError", value |-> Rat(0, 1)]
            ELSE [error |-> "none",
                  value |-> RAdd(before.value,
                                 RMul(scores[c], WeightGet(custom_weightings, c).value))]

RNeg(a) == Rat(0 - a.num, a.den)
\* Python's max(a, b)
RMax(a, b) == IF RLt(a, b) THEN b ELSE a

\* what _calculate_overall_score hands back: the float it returns, the
\* exception it logged ("none" when it did not fall back), and whether an
\* exception left the function
Score(r) == [raised |-> FALSE, error |-> "none", score |-> r]
Fallback(error, r) == [raised |-> FALSE, error |-> error, score |-> r]
Propagated(error) == [raised |-> TRUE, error |-> error, score |-> Rat(0, 1)]

\* _calculate_overall_score with the clamp applied before the penalty
OverallScoreClampBeforePenalty(scores, risk_flags, custom_weightings) ==
    LET risk_penalty == AIAnalyzer_calculate_risk_penalty(risk_flags)
        weighted == WeightedSum(scores, custom_weightings, Len(Components))
    IN  IF weighted.error # "none" THEN Fallback(weighted.error, Rat(50, 1))
        ELSE Score(RAdd(RMax(Rat(0, 1), RMin(Rat(100, 1), weighted.value)),
                        RNeg(risk_penalty)))

\* _calculate_overall_score returning the weighted score unclamped
OverallScoreUnclamped(scores, risk_flags, custom_weightings) ==
    LET risk_penalty == AIAnalyzer_calculate_risk_penalty(risk_flags)
        weighted == WeightedSum(scores, custom_weightings, Len(Components))
    IN  IF weighted.error # "none" THEN Fallback(weighted.error, Rat(50, 1))
        ELSE Score(RAdd(weighted.value, RNeg(risk_penalty)))

\* _calculate_overall_score catching TypeError only
OverallScoreCatchesTypeErrorOnly(scores, risk_flags, custom_weightings) ==
    LET risk_penalty == AIAnalyzer_calculate_risk_penalty(risk_flags)
        weighted == WeightedSum(scores, custom_weightings, Len(Components))
        overall_score == RAdd(weighted.value, RNeg(risk_penalty))
    IN  IF weighted.error = "TypeError" THEN Fallback(weighted.error, Rat(50, 1))
        ELSE IF weighted.error # "none" THEN Propagated(weighted.error)
        ELSE Score(RMax(Rat(0, 1), RMin(Rat(100, 1), overall_score)))

\* AIAnalyzer._calculate_overall_score; scores are the six component scores
\* its _calculate_*_score calls returned
AIAnalyzer_calculate_overall_score(scores, risk_flags, custom_weightings) ==
    LET risk_penalty == AIAnalyzer_calculate_risk_penalty(risk_flags)
        weighted == WeightedSum(scores, custom_weightings, Len(Components))
        overall_score == RAdd(weighted.value, RNeg(risk_penalty))
    IN  IF weighted.error # "none" THEN Fallback(weighted.error, Rat(50, 1))
        ELSE Score(RMax(Rat(0, 1), RMin(Rat(100, 1), overall_score)))

(* ------------------------- Custom investment thesis -------------------- *)

\* the values of the ScoringCriterion enum
ScoringCriteria ==
    {"team_quality", "market_size", "product_innovation", "traction",
     "business_model", "financial_health", "competitive_advantage",
     "scalability", "execution_capability", "risk_profile"}

\* one item of scoring_preferences: config.get("weight", 0.1) finds weight
\* when has_weight
Preference(criterion_name, has_weight, weight) ==
    [criterion_name |-> criterion_name, has_weight |-> has_weight, weight |-> weight]

\* the scoring_weights list built by the first loop of create_custom_thesis:
\* ScoringCriterion(name) raises ValueError for an unknown name, and the
\* item is skipped
RECURSIVE CollectScoringWeights(_)
CollectScoringWeights(scoring_preferences) ==
    IF scoring_preferences = <<>> THEN <<>>
    ELSE
        LET item == Head(scoring_preferences)
            rest == CollectScoringWeights(Tail(scoring_preferences))
        IN  IF item.criterion_name \notin ScoringCriteria THEN rest
            ELSE <<[criterion |-> item.criterion_name,
                    weight |-> IF item.has_weight THEN item.weight ELSE Rat(1, 10),
                    importance |-> "medium"]>> \o rest

\* sum(w.weight for w in scoring_weights)
RECURSIVE TotalWeight(_)
TotalWeight(scoring_weights) ==
    IF scoring_weights = <<>> THEN Rat(0, 1)
    ELSE RAdd(Head(scoring_weights).weight, TotalWeight(Tail(scoring_weights)))

\* a / b for floats, b # 0
RDiv(a, b) == Rat(a.num * b.den, a.den * b.num)

\* create_custom_thesis dividing by the number of weights instead of their total
CreateThesisNormalisedByCount(scoring_preferences) ==
    LET scoring_weights == CollectScoringWeights(scoring_preferences)
        total_weight == TotalWeight(scoring_weights)
    IN  [scoring_weights |->
            IF RLt(Rat(0, 1), total_weight)
            THEN [i \in 1..Len(scoring_weights) |->
                     [scoring_weights[i] EXCEPT
                         !.weight = RDiv(@, Rat(Len(scoring_weights), 1))]]
            ELSE scoring_weights]

\* CustomizableScoringService.create_custom_thesis: the InvestmentThesis's
\* scoring_weights
create_custom_thesis(scoring_preferences) ==
    LET scoring_weights == CollectScoringWeights(scoring_preferences)
        total_weight == TotalWeight(scoring_weights)
    IN  [scoring_weights |->
            IF RLt(Rat(0, 1), total_weight)
            THEN [i \in 1..Len(scoring_weights) |->
                     [scoring_weights[i] EXCEPT !.weight = RDiv(@, total_weight)]]
            ELSE scoring_weights]

(* ------------------------- Peer Comparator / Ranker -------------------- *)

\* np.mean of the percentile ranks of a non-empty benchmark list
RECURSIVE SumOfRanks(_)
SumOfRanks(benchmarks) ==
    IF benchmarks = <<>> THEN Rat(0, 1)
    ELSE RAdd(Head(benchmarks).percentile_rank, SumOfRanks(Tail(benchmarks)))

MeanOfRanks(benchmarks) == RDiv(SumOfRanks(benchmarks), Rat(Len(benchmarks), 1))

\* the aggregate with 0 as the value for an empty benchmark list
OverallPercentileZeroWhenEmpty(benchmarks) ==
    IF benchmarks # <<>> THEN MeanOfRanks(benchmarks) ELSE Rat(0, 1)

\* np.mean([b.percentile_rank for b in benchmarks]) if benchmarks else 0.5
OverallPercentile(benchmarks) ==
    IF benchmarks # <<>> THEN MeanOfRanks(benchmarks) ELSE Rat(1, 2)

\* one element of startups_data; startup.get("startup_id", "unknown")
Startup(has_id, startup_id, metrics) ==
    [has_id |-> has_id, startup_id |-> startup_id, metrics |-> metrics]
StartupId(startup) == IF startup.has_id THEN startup.startup_id ELSE "unknown"

\* comparison_results[startup_id] = {...}: the dict keeps the position of a
\* key's first insertion and the value of its last
PutResult(comparison_results, entry) ==
    IF \E i \in 1..Len(comparison_results) :
           comparison_results[i].startup_id = entry.startup_id
    THEN [i \in 1..Len(comparison_results) |->
             IF comparison_results[i].startup_id = entry.startup_id
             THEN entry ELSE comparison_results[i]]
    ELSE Append(comparison_results, entry)

\* the first loop of compare_multiple_startups
RECURSIVE CompareLoop(_, _, _, _)
CompareLoop(cache, startups_data, sector, stage) ==
    IF startups_data = <<>> THEN <<>>
    ELSE
        LET n == Len(startups_data)
            startup == startups_data[n]
            benchmarks == benchmark_startup(cache, startup.metrics, sector, stage)
        IN  PutResult(
                CompareLoop(cache, SubSeq(startups_data, 1, n - 1), sector, stage),
                [startup_id |-> StartupId(startup),
                 startup_name |-> "Unknown",
                 benchmarks |-> benchmarks,
                 overall_percentile |-> OverallPercentile(benchmarks),
                 metrics |-> startup.metrics])

\* sorted(items, key=overall_percentile, reverse=True): the sort is stable,
\* items with equal keys keep their order
RECURSIVE SortedByPercentile(_)
SortedByPercentile(items) ==
    IF items = <<>> THEN <<>>
    ELSE
        LET n == Len(items)
            x == items[n]
            before == SortedByPercentile(SubSeq(items, 1, n - 1))
            k == Cardinality({i \in 1..Len(before) :
                     RGeq(before[i].overall_percentile, x.overall_percentile)})
        IN  SubSeq(before, 1, k) \o <<x>> \o SubSeq(before, k + 1, Len(before))

\* the position of startup_id in the sorted items, from 1
PositionOf(sorted_startups, startup_id) ==
    CHOOSE i \in 1..Len(sorted_startups) : sorted_startups[i].startup_id = startup_id

\* BenchmarkingService.compare_multiple_startups
compare_multiple_startups(cache, startups_data, sector, stage) ==
    LET sector_benchmarks == get_sector_benchmarks(cache, sector, stage, {})
        comparison_results == CompareLoop(cache, startups_data, sector, stage)
        sorted_startups == SortedByPercentile(comparison_results)
    IN  [sector |-> sector,
         stage |-> stage,
         total_startups |-> Len(startups_data),
         comparison_results |->
             [i \in 1..Len(comparison_results) |->
                 [startup_id |-> comparison_results[i].startup_id,
                  startup_name |-> comparison_results[i].startup_name,
                  benchmarks |-> comparison_results[i].benchmarks,
                  overall_percentile |-> comparison_results[i].overall_percentile,
                  metrics |-> comparison_results[i].metrics,
                  rank |-> PositionOf(sorted_startups,
                                      comparison_results[i].startup_id),
                  percentile_rank |-> comparison_results[i].overall_percentile]],
         sector_benchmarks |-> sector_benchmarks]

\* int(x) for a float x: truncation toward zero
IntOf(x) == IF x.num >= 0 THEN x.num \div x.den ELSE 0 - ((0 - x.num) \div x.den)

\* one item of the strengths / weaknesses lists of get_peer_analysis
PeerItem(b) ==
    [metric |-> b.metric_name, percentile |-> b.percentile_rank,
     rating |-> b.performance_rating, value |-> b.startup_value]

\* get_peer_analysis with strict thresholds (> 0.75, < 0.25)
PeerAnalysisStrictThresholds(cache, startup_metrics, sector, stage) ==
    LET benchmarks == benchmark_startup(cache, startup_metrics, sector, stage)
        overall_percentile == OverallPercentile(benchmarks)
        IsStrength(b) == RLt(Rat(3, 4), b.percentile_rank)
        IsWeakness(b) == RLt(b.percentile_rank, Rat(1, 4))
        strengths == SelectSeq(benchmarks, IsStrength)
        weaknesses == SelectSeq(benchmarks, IsWeakness)
        estimate == IntOf(RMul(RAdd(Rat(1, 1), RNeg(overall_percentile)),
                               Rat(100, 1)))
    IN  [sector |-> sector,
         stage |-> stage,
         overall_percentile |-> overall_percentile,
         overall_rank_estimate |-> IF estimate < 1 THEN 1 ELSE estimate,
         strengths |-> [i \in 1..Len(strengths) |-> PeerItem(strengths[i])],
         weaknesses |-> [i \in 1..Len(weaknesses) |-> PeerItem(weaknesses[i])]]

\* BenchmarkingService.get_peer_analysis
get_peer_analysis(cache, startup_metrics, sector, stage) ==
    LET benchmarks == benchmark_startup(cache, startup_metrics, sector, stage)
        overall_percentile == OverallPercentile(benchmarks)
        IsStrength(b) == RGeq(b.percentile_rank, Rat(3, 4))
        IsWeakness(b) == RLeq(b.percentile_rank, Rat(1, 4))
        strengths == SelectSeq(benchmarks, IsStrength)
        weaknesses == SelectSeq(benchmarks, IsWeakness)
        estimate == IntOf(RMul(RAdd(Rat(1, 1), RNeg(overall_percentile)),
                               Rat(100, 1)))
    IN  [sector |-> sector,
         stage |-> stage,
         overall_percentile |-> overall_percentile,
         overall_rank_estimate |-> IF estimate < 1 THEN 1 ELSE estimate,
         strengths |-> [i \in 1..Len(strengths) |-> PeerItem(strengths[i])],
         weaknesses |-> [i \in 1..Len(weaknesses) |-> PeerItem(weaknesses[i])]]

(* --------------------------- benchmarks route -------------------------- *)

\* the limit parameter of get_benchmark_metrics: an int supplied by the
\* framework for a request, or the declared default object Query(50, ...)
\* that a plain Python call without the argument receives
IntLimit(n) == [is_int |-> TRUE, value |-> n]
QueryDefault == [is_int |-> FALSE, value |-> 50]

\* raise HTTPException(status_code=500, detail=...)
HTTP500(detail) == [status |-> 500, detail |-> detail]

\* one mock benchmark of get_benchmark_metrics, percentiles in hundredths
RouteMetric(metric_name, sector, stage, p25, p50, p75, p90, unit, sample_size) ==
    [metric_name |-> metric_name, sector |-> sector, stage |-> stage,
     percentile_25 |-> p25, percentile_50 |-> p50,
     percentile_75 |-> p75, percentile_90 |-> p90,
     unit |-> unit, sample_size |-> sample_size]

\* x or default for a str x
StrOr(x, default) == IF x = "" THEN default ELSE x

\* a_list[:limit] for an int limit
SliceTo(a_list, limit) ==
    LET end == IF limit < 0 THEN Len(a_list) + limit ELSE limit
    IN  SubSeq(a_list, 1, IF end > Len(a_list) THEN Len(a_list) ELSE end)

\* get_benchmark_metrics: slicing by the Query default object raises
\* TypeError, which the handler turns into HTTP 500
get_benchmark_metrics(sector, stage, limit) ==
    LET sec == StrOr(sector, "fintech")
        stg == StrOr(stage, "series_a")
        benchmark_metrics ==
            <<RouteMetric("Revenue Growth Rate (YoY)", sec, stg,
                          15, 30, 50, 75, "percentage", 150),
              RouteMetric("Customer Acquisition Cost", sec, stg,
                          5000, 12000, 20000, 35000, "USD", 145),
              RouteMetric("Monthly Recurring Revenue", sec, stg,
                          5000000, 15000000, 40000000, 80000000, "USD", 120),
              RouteMetric("Gross Margin", sec, stg,
                          45, 65, 80, 90, "percentage", 180),
              RouteMetric("Employee Count", sec, stg,
                          800, 1500, 2500, 4500, "count", 200)>>
    IN  IF ~limit.is_int THEN HTTP500("Failed to retrieve metrics")
        ELSE [status |-> 200,
              metrics |-> SliceTo(benchmark_metrics, limit.value),
              total_count |-> Len(benchmark_metrics)]

\* b["metric_name"].lower().replace(" ", "_") on the mock metric names
RouteKey(metric_name) ==
    CASE metric_name = "Revenue Growth Rate (YoY)" -> "revenue_growth_rate_(yoy)"
      [] metric_name = "Customer Acquisition Cost" -> "customer_acquisition_cost"
      [] metric_name = "Monthly Recurring Revenue" -> "monthly_recurring_revenue"
      [] metric_name = "Gross Margin" -> "gross_margin"
      [] metric_name = "Employee Count" -> "employee_count"
      [] OTHER -> metric_name

\* metric_name.lower() on the startup metric names the model supplies
LowerKey(metric_name) ==
    CASE metric_name = "Gross_Margin" -> "gross_margin"
      [] OTHER -> metric_name

\* round(x, 1), half to even
Round1(x) ==
    LET n == x.num * 10
        q == n \div x.den
        rem == n % x.den
        up == \/ 2 * rem > x.den
              \/ 2 * rem = x.den /\ q % 2 = 1
    IN  Rat(IF up THEN q + 1 ELSE q, 10)

\* the loop of compare_startup_to_benchmarks: the entries appended so far,
\* or the exception raised by the ranker
RECURSIVE RouteCompareLoop(_, _)
RouteCompareLoop(benchmarks, startup_metrics) ==
    IF startup_metrics = <<>> THEN [raised |-> FALSE, results |-> <<>>]
    ELSE
        LET metric_name == Head(startup_metrics).name
            startup_value == Head(startup_metrics).value
            Matches(b) == RouteKey(b.metric_name) = LowerKey(metric_name)
            matching == SelectSeq(benchmarks, Matches)
            rest == RouteCompareLoop(benchmarks, Tail(startup_metrics))
        IN  IF matching = <<>> THEN rest
            ELSE
                LET benchmark == Head(matching)
                    percentile_rank ==
                        calculate_percentile_rank(
                            startup_value, benchmark.percentile_25,
                            benchmark.percentile_50, benchmark.percentile_75,
                            benchmark.percentile_90)
                IN  IF percentile_rank.raised \/ rest.raised
                    THEN [raised |-> TRUE, results |-> <<>>]
                    ELSE [raised |-> FALSE,
                          results |->
                              <<[metric_name |-> benchmark.metric_name,
                                 startup_value |-> startup_value,
                                 sector_median |-> benchmark.percentile_50,
                                 sector_p75 |-> benchmark.percentile_75,
                                 sector_p90 |-> benchmark.percentile_90,
                                 percentile_rank |-> percentile_rank.value,
                                 performance_rating |->
                                     get_performance_rating(percentile_rank.value),
                                 unit |-> benchmark.unit,
                                 sample_size |-> benchmark.sample_size]>>
                              \o rest.results]

RECURSIVE SumOfRouteRanks(_)
SumOfRouteRanks(comparison_results) ==
    IF comparison_results = <<>> THEN Rat(0, 1)
    ELSE RAdd(Head(comparison_results).percentile_rank,
              SumOfRouteRanks(Tail(comparison_results)))

\* len([r for r in comparison_results if r["percentile_rank"] > bound])
CountAbove(comparison_results, bound) ==
    LET Above(r) == RLt(bound, r.percentile_rank)
    IN  Len(SelectSeq(comparison_results, Above))

\* compare_startup_to_benchmarks once the benchmark response is there: the
\* division by len(comparison_results) raises ZeroDivisionError when nothing
\* matched, and every exception becomes HTTP 500
CompareToBenchmarks(benchmark_response, startup_metrics, sector, stage) ==
    IF benchmark_response.status # 200 THEN HTTP500("Comparison failed")
    ELSE
        LET loop == RouteCompareLoop(benchmark_response.metrics, startup_metrics)
            comparison_results == loop.results
        IN  IF loop.raised \/ Len(comparison_results) = 0
            THEN HTTP500("Comparison failed")
            ELSE
                [status |-> 200,
                 startup_id |-> "comparison_result",
                 sector |-> sector,
                 stage |-> stage,
                 overall_benchmark_score |->
                     Round1(RMul(RDiv(SumOfRouteRanks(comparison_results),
                                      Rat(Len(comparison_results), 1)),
                                 Rat(100, 1))),
                 comparison_results |-> comparison_results,
                 summary |->
                     [metrics_compared |-> Len(comparison_results),
                      above_median |-> CountAbove(comparison_results, Rat(1, 2)),
                      top_quartile |-> CountAbove(comparison_results, Rat(3, 4)),
                      top_decile |-> CountAbove(comparison_results, Rat(9, 10))]]

\* compare_startup_to_benchmarks: it calls get_benchmark_metrics as a plain
\* function without limit
compare_startup_to_benchmarks(startup_metrics, sector, stage) ==
    CompareToBenchmarks(get_benchmark_metrics(sector, stage, QueryDefault),
                        startup_metrics, sector, stage)

(* ----------------------------- risk assessment ------------------------- *)

\* the position of a RiskLevel value in Python's str ordering:
\* "critical" < "high" < "low" < "medium"
SeverityValueOrder(severity) ==
    CASE severity = "critical" -> 1
      [] severity = "high" -> 2
      [] severity = "low" -> 3
      [] severity = "medium" -> 4

\* key(a) < key(b) for the sort key (x.severity.value, -x.confidence)
SortKeyLess(a, b) ==
    \/ SeverityValueOrder(a.severity) < SeverityValueOrder(b.severity)
    \/ /\ a.severity = b.severity
       /\ 0 - a.confidence < 0 - b.confidence

\* list.sort(key=..., reverse=True): descending by key, equal keys keep
\* their order
RECURSIVE SortRiskFlags(_)
SortRiskFlags(risk_flags) ==
    IF risk_flags = <<>> THEN <<>>
    ELSE
        LET last == risk_flags[Len(risk_flags)]
            before == SortRiskFlags(SubSeq(risk_flags, 1, Len(risk_flags) - 1))
            NotBelow(x) == ~SortKeyLess(x, last)
            Below(x) == SortKeyLess(x, last)
        IN  SelectSeq(before, NotBelow) \o <<last>> \o SelectSeq(before, Below)

\* RiskAssessmentService.assess_startup_risks on the flags its seven
\* assessments produced, in the order they were collected
assess_startup_risks(collected) == SortRiskFlags(collected)

(* ------------------------ comprehensive analysis ----------------------- *)

\* what _query_gemini does for one prompt: it raises, or returns a text in
\* which the regex of _parse_json_response finds nothing ("no_json"), a
\* bracketed span that json.loads rejects ("bad_json"), a JSON object with
\* the given keys, or a JSON array with the given items
GeminiRaises == [kind |-> "raises", keys |-> {}, items |-> <<>>]
GeminiText(kind) == [kind |-> kind, keys |-> {}, items |-> <<>>]
GeminiObject(keys) == [kind |-> "object", keys |-> keys, items |-> <<>>]
GeminiArray(items) == [kind |-> "array", keys |-> {}, items |-> items]

ParsedDict(keys) == [type |-> "dict", keys |-> keys, items |-> <<>>]
ParsedList(items) == [type |-> "list", keys |-> {}, items |-> items]

\* AIAnalyzer._parse_json_response: no match and a json.loads error both
\* give the {"error": ..., "raw": ...} dict
AIAnalyzer_parse_json_response(response) ==
    IF response.kind = "object" THEN ParsedDict(response.keys)
    ELSE IF response.kind = "array" THEN ParsedList(response.items)
    ELSE ParsedDict({"error", "raw"})

\* AnalysisInsight(...) built from one item of insights_data
AnalysisInsight(insight_data) ==
    [category |-> "General", title |-> "Analysis Point",
     confidence |-> insight_data.confidence]

\* AIAnalyzer._generate_insights: iterating a non-empty dict yields str keys
\* (AttributeError on .get), an item that is not a dict likewise, and a
\* confidence outside [0, 1] fails validation; every exception gives []
AIAnalyzer_generate_insights(response) ==
    IF response.kind = "raises" THEN <<>>
    ELSE
        LET insights_data == AIAnalyzer_parse_json_response(response)
            Builds(item) ==
                /\ item.is_dict
                /\ RLeq(Rat(0, 1), item.confidence)
                /\ RLeq(item.confidence, Rat(1, 1))
        IN  IF insights_data.type = "dict" THEN <<>>
            ELSE IF \A i \in 1..Len(insights_data.items) :
                        Builds(insights_data.items[i])
            THEN [i \in 1..Len(insights_data.items) |->
                     AnalysisInsight(insights_data.items[i])]
            ELSE <<>>

\* the outcome of risk_assessment_service.assess_startup_risks
RiskRaises == [raised |-> TRUE, flags |-> <<>>]
RiskReturns(flags) == [raised |-> FALSE, flags |-> flags]

\* AIAnalyzer._assess_risks
AIAnalyzer_assess_risks(risk_outcome) ==
    IF risk_outcome.raised THEN <<>> ELSE risk_outcome.flags

\* traction_data["customer_acquisition_cost"] of the consolidated data
NoCac == [present |-> FALSE, value |-> 0]
Cac(value) == [present |-> TRUE, value |-> value]

\* AIAnalyzer._generate_benchmarks: _consolidate_document_data fills neither
\* the sector, the stage, growth_rate, gross_margin nor the team size, so
\* the only metric is the customer acquisition cost, against ai_ml / seed
AIAnalyzer_generate_benchmarks(cache, cac) ==
    LET startup_metrics ==
            IF cac.present /\ cac.value # 0
            THEN <<[name |-> "customer_acquisition_cost", value |-> cac.value,
                    numeric |-> TRUE]>>
            ELSE <<>>
    IN  IF startup_metrics # <<>>
        THEN benchmark_startup(cache, startup_metrics, "ai_ml", "seed")
        ELSE <<>>

RecommendationKeys == {"recommendation", "strengths", "concerns", "next_steps"}

\* AIAnalyzer._generate_investment_recommendation: the parsed response, or
\* the default recommendation when the query raised
AIAnalyzer_generate_investment_recommendation(response) ==
    IF response.kind = "raises" THEN ParsedDict(RecommendationKeys)
    ELSE AIAnalyzer_parse_json_response(response)

StubScores == [c \in ComponentSet |-> StubScore(c)]

\* AIAnalyzer.analyze_startup_comprehensive: recommendation[...] on a list
\* raises TypeError and on a dict without the key KeyError; the handler logs
\* and re-raises
analyze_startup_comprehensive(cache, insights_response, risk_outcome, cac, recommendation_response, custom_weightings) ==
    LET insights == AIAnalyzer_generate_insights(insights_response)
        risk_flags == AIAnalyzer_assess_risks(risk_outcome)
        benchmarks == AIAnalyzer_generate_benchmarks(cache, cac)
        overall_score ==
            AIAnalyzer_calculate_overall_score(StubScores, risk_flags,
                                               custom_weightings).score
        recommendation ==
            AIAnalyzer_generate_investment_recommendation(recommendation_response)
    IN  IF recommendation.type = "list"
        THEN [raised |-> TRUE, error |-> "TypeError"]
        ELSE IF ~(RecommendationKeys \subseteq recommendation.keys)
        THEN [raised |-> TRUE, error |-> "KeyError"]
        ELSE [raised |-> FALSE, error |-> "none",
              analysis_type |-> "comprehensive",
              overall_score |-> overall_score,
              insights |-> insights,
              risk_flags |-> risk_flags,
              benchmarks |-> benchmarks,
              recommendation |-> recommendation]

(* ----------------------------- progress tracker ------------------------ *)

\* the entry start_tracking stores (timestamps left out)
StartingEntry(document_id, total_steps) ==
    [document_id |-> document_id, progress |-> 0, status |-> "starting",
     message |-> "Initializing...", total_steps |-> total_steps,
     error |-> "None", completed |-> FALSE]

\* self._progress_data[document_id] = entry
PutProgress(data, document_id, entry) ==
    [d \in DOMAIN data \cup {document_id} |->
        IF d = document_id THEN entry ELSE data[d]]

\* ProgressTracker.start_tracking
start_tracking(data, document_id, total_steps) ==
    PutProgress(data, document_id, StartingEntry(document_id, total_steps))

\* ProgressTracker.update_progress: progress is clamped before the entry is
\* updated and before the test for the error signal
update_progress(data, document_id, progress, message, status) ==
    LET started == IF document_id \notin DOMAIN data
                   THEN start_tracking(data, document_id, 100)
                   ELSE data
        clamped == IF progress > 100 THEN 100
                   ELSE IF progress < 0 THEN 0 ELSE progress
        updated == [started[document_id] EXCEPT
                        !.progress = clamped,
                        !.message = message,
                        !.status = status,
                        !.completed = (clamped >= 100)]
        handled == IF clamped < 0
                   THEN [updated EXCEPT !.status = "error",
                                        !.error = message,
                                        !.completed = TRUE]
                   ELSE updated
    IN  PutProgress(started, document_id, handled)

\* ProgressTracker.complete_tracking
complete_tracking(data, document_id, success, message) ==
    IF document_id \in DOMAIN data
    THEN LET shown == IF message # "" THEN message
                      ELSE IF success THEN "Processing completed successfully"
                      ELSE "Processing failed"
             updated == [data[document_id] EXCEPT
                            !.progress = IF success THEN 100 ELSE 0 - 1,
                            !.status = IF success THEN "completed" ELSE "error",
                            !.message = shown,
                            !.completed = TRUE]
         IN  PutProgress(data, document_id,
                         IF success THEN updated
                         ELSE [updated EXCEPT !.error = message])
    ELSE data

\* one progress_callback(message, progress, status) call
Callback(message, progress, status) ==
    [message |-> message, progress |-> progress, status |-> status]

Processing(message, progress) == Callback(message, progress, "processing")

\* DocumentProcessor.process_document: the progress callbacks it makes, in
\* order, and whether it returns a COMPLETED result, by what happens to the
\* file; every failure is caught and answered with a FAILED result
ProcessDocument(scenario) ==
    LET failed == Callback("Processing failed", 0 - 1, "error")
        begin == <<Processing("Validating file format...", 5),
                   Processing("Starting content extraction...", 10)>>
        finish == <<Processing("Structuring extracted data...", 70),
                    Processing("Finalizing results...", 95),
                    Callback("Processing completed successfully!", 100, "completed")>>
        pdf == <<Processing("Extracting text from PDF...", 20),
                 Processing("Analyzing text quality...", 35),
                 Processing("Extracting document metadata...", 55),
                 Processing("PDF processing completed", 60)>>
        docx == <<Processing("Reading DOCX file...", 25),
                  Processing("Parsing document structure...", 30),
                  Processing("Extracting paragraphs...", 40),
                  Processing("Extracting tables...", 50)>>
    IN  CASE scenario = "too_large" ->
                [succeeded |-> FALSE,
                 callbacks |-> <<Callback("File too large", 0 - 1, "error"), failed>>]
          [] scenario = "unsupported" ->
                [succeeded |-> FALSE,
                 callbacks |-> begin \o
                     <<Callback("Unsupported file type", 0 - 1, "error"), failed>>]
          [] scenario = "pdf_error" ->
                [succeeded |-> FALSE,
                 callbacks |-> begin \o
                     <<Processing("Extracting text from PDF...", 20),
                       Callback("PDF processing failed", 0 - 1, "error"), failed>>]
          [] scenario = "docx_error" ->
                [succeeded |-> FALSE,
                 callbacks |-> begin \o
                     <<Processing("Reading DOCX file...", 25), failed>>]
          [] scenario = "pdf" ->
                [succeeded |-> TRUE, callbacks |-> begin \o pdf \o finish]
          [] scenario = "docx" ->
                [succeeded |-> TRUE, callbacks |-> begin \o docx \o finish]

(* ------------------- table load, statement by statement --------------- *)

\* a load that extends self.benchmark_cache in place, row by row
CacheMutatedInPlace(cache, benchmark_data) ==
    [loaded |-> TRUE, rows |-> benchmark_data]

\* self.benchmark_cache while the local benchmark_data list is being built:
\* the attribute is not touched
CacheWhileBuilding(cache, benchmark_data) == cache

\* self.benchmark_cache = benchmark_data
CacheAssigned(benchmark_data) == [loaded |-> TRUE, rows |-> benchmark_data]

\* the evaluation of self.benchmark_cache by a lookup: the object the
\* attribute refers to at that moment
ReadCache(cache) == cache

(* ------------------------------ inputs --------------------------------- *)

Points == (0 - NegP)..MaxP
\* raw values reach below every point and past twice the largest point
Values == (0 - NegP - 1)..(2 * MaxP + 1)

\* ranks handed to the classifiers: every a/b from just below 0 to just above 1
Ranks == {Rat(a, b) : a \in (0 - 1)..(MaxRatingDen + 1), b \in 1..MaxRatingDen}

Sectors == {"fintech", "FinTech", "saas", "biotech"}
Stages == {"seed", "SEED", "series_a"}
MetricNames == {"revenue_growth_rate", "gross_margin", "employee_count", "burn_rate"}
\* startup metric values in hundredths: 0, 0.45, 0.75 and 20.0
StartupValues == {0, 45, 75, 2000}
Metric(name, value) == [name |-> name, value |-> value, numeric |-> TRUE]
\* an item whose value is not a number (None, a str)
NonNumericMetric(name) == [name |-> name, value |-> 0, numeric |-> FALSE]

\* the metric dicts of at most MaxMetrics entries, as item sequences with
\* distinct keys
RECURSIVE MetricDicts(_)
MetricDicts(n) ==
    IF n = 0 THEN {<<>>}
    ELSE LET shorter == MetricDicts(n - 1)
         IN  shorter \cup
             {Append(m, Metric(name, value)) :
                 m \in {x \in shorter : Len(x) = n - 1},
                 name \in MetricNames, value \in StartupValues}

HasDistinctKeys(m) ==
    \A i \in 1..Len(m) : \A j \in 1..Len(m) : (m[i].name = m[j].name) => (i = j)

\* metric dicts with one value that is not a number
NonNumericMetricDicts ==
    {<<NonNumericMetric("revenue_growth_rate"), Metric("gross_margin", 45)>>,
     <<Metric("gross_margin", 45), NonNumericMetric("revenue_growth_rate")>>,
     <<NonNumericMetric("burn_rate"), Metric("gross_margin", 45)>>,
     <<NonNumericMetric("gross_margin")>>}

\* severities of risk flags; "info" stands for any value outside RiskLevel
Severities == {"critical", "high", "medium", "low", "info"}
RiskFlag(severity) == [severity |-> severity]

\* the sequences of at most n risk flags with severities in S
RECURSIVE FlagSeqs(_, _)
FlagSeqs(S, n) ==
    IF n = 0 THEN {<<>>}
    ELSE LET shorter == FlagSeqs(S, n - 1)
         IN  shorter \cup
             {Append(f, RiskFlag(sv)) : f \in {x \in shorter : Len(x) = n - 1}, sv \in S}

\* component scores handed to the aggregation: the repository's fixed
\* scores, six equal scores, and scores off the [0,100] scale
UniformScores == {0, 50, 80, 100, 150, 0 - 20}
ScoreInputs ==
    {[c \in ComponentSet |-> StubScore(c)]}
        \cup {[c \in ComponentSet |-> Rat(u, 1)] : u \in UniformScores}

\* custom weight mappings: None, {}, a non-mapping, and dicts over some of
\* the components giving each the same value (a number or a non-number)
WeightDomains ==
    {{}, {"financial_health"}, {"financial_health", "traction"}, ComponentSet}
WeightValues ==
    {Number(Rat(0 - 1, 1)), Number(Rat(0, 1)), Number(Rat(1, 6)),
     Number(Rat(1, 2)), Number(Rat(1, 1)), NotANumber}
WeightInputs ==
    {NoWeightings, NotAMapping}
        \cup {WeightDict([c \in D |-> w]) : D \in WeightDomains, w \in WeightValues}

\* scoring preferences: three criteria and one key that is not a criterion
PreferenceNames == {"team_quality", "traction", "financial_health", "minimum_threshold"}
PreferenceConfigs ==
    {[has_weight |-> FALSE, weight |-> Rat(0, 1)]}
        \cup {[has_weight |-> TRUE, weight |-> w] :
                 w \in {Rat(0 - 1, 2), Rat(0, 1), Rat(1, 4), Rat(3, 2)}}

\* the preference dicts of at most n items, as item sequences
RECURSIVE PreferenceDicts(_)
PreferenceDicts(n) ==
    IF n = 0 THEN {<<>>}
    ELSE LET shorter == PreferenceDicts(n - 1)
         IN  shorter \cup
             {Append(m, Preference(name, cfg.has_weight, cfg.weight)) :
                 m \in {x \in shorter : Len(x) = n - 1},
                 name \in PreferenceNames, cfg \in PreferenceConfigs}

HasDistinctCriteria(m) ==
    \A i \in 1..Len(m) : \A j \in 1..Len(m) :
        (m[i].criterion_name = m[j].criterion_name) => (i = j)

\* startups of a comparison: two ids and a startup without one; metric
\* dicts with no metric, only an unmatched one, a matched and an unmatched
\* one, and fully matched ones
CompareIds == {"s1", "s2"}
CompareMetrics ==
    {<<>>,
     <<Metric("burn_rate", 45)>>,
     <<Metric("revenue_growth_rate", 45), Metric("burn_rate", 0)>>,
     <<Metric("gross_margin", 65)>>,
     <<Metric("revenue_growth_rate", 75), Metric("gross_margin", 45)>>}
CompareStartups ==
    {Startup(TRUE, id, m) : id \in CompareIds, m \in CompareMetrics}
        \cup {Startup(FALSE, "", m) : m \in CompareMetrics}
ComparePairs == {<<"fintech", "seed">>, <<"biotech", "seed">>}

\* the sequences of at most n startups
RECURSIVE StartupSeqs(_)
StartupSeqs(n) ==
    IF n = 0 THEN {<<>>}
    ELSE LET shorter == StartupSeqs(n - 1)
         IN  shorter \cup
             {Append(q, st) : q \in {x \in shorter : Len(x) = n - 1},
                              st \in CompareStartups}

(* ------------------------------ state ---------------------------------- *)

\* the metrics argument of a lookup: None, or a list of names (possibly empty)
NoMetrics == [given |-> FALSE, names |-> {}]
MetricList(names) == [given |-> TRUE, names |-> names]
LookupMetrics ==
    {NoMetrics, MetricList({}), MetricList({"gross_margin"}),
     MetricList({"revenue_growth_rate", "burn_rate"})}

\* requests of the benchmarks route
RouteMetricNames == {"gross_margin", "Gross_Margin", "revenue_growth_rate", "burn_rate"}
RECURSIVE RouteMetricDicts(_)
RouteMetricDicts(n) ==
    IF n = 0 THEN {<<>>}
    ELSE LET shorter == RouteMetricDicts(n - 1)
         IN  shorter \cup
             {Append(m, Metric(name, value)) :
                 m \in {x \in shorter : Len(x) = n - 1},
                 name \in RouteMetricNames, value \in StartupValues}

\* collaborator outcomes of a comprehensive analysis
InsightItem(is_dict, confidence) == [is_dict |-> is_dict, confidence |-> confidence]
InsightResponses ==
    {GeminiRaises, GeminiText("no_json"), GeminiObject({}),
     GeminiArray(<<InsightItem(TRUE, Rat(7, 10))>>),
     GeminiArray(<<InsightItem(TRUE, Rat(7, 10)), InsightItem(TRUE, Rat(3, 2))>>),
     GeminiArray(<<InsightItem(FALSE, Rat(0, 1))>>)}
RecommendationResponses ==
    {GeminiRaises, GeminiText("no_json"), GeminiText("bad_json"),
     GeminiObject(RecommendationKeys),
     GeminiObject({"recommendation", "strengths"}),
     GeminiArray(<<>>)}
RiskOutcomes ==
    {RiskRaises} \cup {RiskReturns(f) : f \in FlagSeqs({"critical", "low"}, MaxFlags)}
AnalysisWeightings ==
    {NoWeightings, NotAMapping,
     WeightDict([c \in {"traction"} |-> Number(Rat(2, 1))])}

\* flags produced by the risk assessments: confidence in hundredths
AssessedFlag(severity, confidence) == [severity |-> severity, confidence |-> confidence]
Confidences == {70, 95}
RECURSIVE AssessedFlagSeqs(_)
AssessedFlagSeqs(n) ==
    IF n = 0 THEN {<<>>}
    ELSE LET shorter == AssessedFlagSeqs(n - 1)
         IN  shorter \cup
             {Append(f, AssessedFlag(sv, c)) :
                 f \in {x \in shorter : Len(x) = n - 1},
                 sv \in {"critical", "high", "medium", "low"}, c \in Confidences}

NotLoaded == [loaded |-> FALSE, rows |-> <<>>]
Idle == [op |-> "idle"]

\* documents: the background task processes the first, a callback of
\* another document's processing updates the second
TaskDocument == "doc1"
OtherDocument == "doc2"
Scenarios == {"too_large", "unsupported", "pdf_error", "docx_error", "pdf", "docx"}
ProgressValues == {0 - 1, 0, 5, 99, 100, 150}

\* ProgressTracker._progress_data after __init__
NoProgress == <<>>
\* no background processing task has been started
NoTask == [pc |-> "idle", todo |-> <<>>, succeeded |-> FALSE]

\* _create_sample_benchmark_data is not running
NotLoading == [pc |-> "idle", benchmark_data |-> <<>>]

Init ==
    /\ benchmark_cache = NotLoaded
    /\ call = Idle
    /\ load = NotLoading
    /\ progress_data = NoProgress
    /\ task = NoTask

\* a call of the service's ranker on a non-decreasing distribution
RankService ==
    /\ call.op = "idle"
    /\ \E p25 \in Points, v \in Values :
        \E p50 \in p25..MaxP : \E p75 \in p50..MaxP : \E p90 \in p75..MaxP :
          /\ call' = [op |-> "rank", impl |-> "service", value |-> v,
                      p25 |-> p25, p50 |-> p50, p75 |-> p75, p90 |-> p90,
                      out |-> BenchmarkingService_calculate_percentile_rank(
                                  v, p25, p50, p75, p90)]
          /\ UNCHANGED <<benchmark_cache, load, progress_data, task>>

\* a call of the route module's ranker on a non-decreasing distribution
RankRoute ==
    /\ call.op = "idle"
    /\ \E p25 \in Points, v \in Values :
        \E p50 \in p25..MaxP : \E p75 \in p50..MaxP : \E p90 \in p75..MaxP :
          /\ call' = [op |-> "rank", impl |-> "route", value |-> v,
                      p25 |-> p25, p50 |-> p50, p75 |-> p75, p90 |-> p90,
                      out |-> calculate_percentile_rank(v, p25, p50, p75, p90)]
          /\ UNCHANGED <<benchmark_cache, load, progress_data, task>>

\* a call of one of the three classifiers
RateService ==
    /\ call.op = "idle"
    /\ \E r \in Ranks :
          /\ call' = [op |-> "rate", impl |-> "service", rank |-> r,
                      rating |-> BenchmarkingService_get_performance_rating(r)]
          /\ UNCHANGED <<benchmark_cache, load, progress_data, task>>

RateRoute ==
    /\ call.op = "idle"
    /\ \E r \in Ranks :
          /\ call' = [op |-> "rate", impl |-> "route", rank |-> r,
                      rating |-> get_performance_rating(r)]
          /\ UNCHANGED <<benchmark_cache, load, progress_data, task>>

RateAnalyzer ==
    /\ call.op = "idle"
    /\ \E r \in Ranks :
          /\ call' = [op |-> "rate", impl |-> "analyzer", rank |-> r,
                      rating |-> AIAnalyzer_calculate_performance_rating(r)]
          /\ UNCHANGED <<benchmark_cache, load, progress_data, task>>

\* the task started by __init__ assigns the seeded table to the cache
CreateSampleBenchmarkData ==
    /\ ~benchmark_cache.loaded
    /\ benchmark_cache' = [loaded |-> TRUE, rows |-> SampleBenchmarkData]
    /\ UNCHANGED <<call, load, progress_data, task>>

\* a call of get_sector_benchmarks
GetSectorBenchmarks ==
    /\ call.op = "idle"
    /\ \E sector \in Sectors, stage \in Stages, metrics \in LookupMetrics :
          /\ call' = [op |-> "get_sector_benchmarks", sector |-> sector,
                      stage |-> stage, metrics |-> metrics,
                      seeded |-> benchmark_cache.loaded,
                      out |-> get_sector_benchmarks(benchmark_cache, sector, stage,
                                                    metrics.names)]
          /\ UNCHANGED <<benchmark_cache, load, progress_data, task>>

\* a GET /metrics request
GetBenchmarkMetrics ==
    /\ call.op = "idle"
    /\ \E sector \in {"", "fintech"}, stage \in {"", "seed"}, limit \in {IntLimit(n) : n \in {0, 2, 50}} :
          /\ call' = [op |-> "get_benchmark_metrics", sector |-> sector,
                      stage |-> stage, limit |-> limit,
                      out |-> get_benchmark_metrics(sector, stage, limit)]
          /\ UNCHANGED <<benchmark_cache, load, progress_data, task>>

\* a POST /compare request
CompareStartupToBenchmarks ==
    /\ call.op = "idle"
    /\ \E sector \in {"fintech", "biotech"}, stage \in {"seed"},
          m \in RouteMetricDicts(MaxMetrics) :
          /\ HasDistinctKeys(m)
          /\ call' = [op |-> "compare_startup_to_benchmarks", sector |-> sector,
                      stage |-> stage, startup_metrics |-> m,
                      out |-> compare_startup_to_benchmarks(m, sector, stage)]
          /\ UNCHANGED <<benchmark_cache, load, progress_data, task>>

\* a call of benchmark_startup; seeded records whether the cache was assigned
BenchmarkStartup ==
    /\ call.op = "idle"
    /\ \E sector \in Sectors, stage \in Stages,
          m \in MetricDicts(MaxMetrics) \cup NonNumericMetricDicts :
          /\ HasDistinctKeys(m)
          /\ call' = [op |-> "benchmark_startup", sector |-> sector, stage |-> stage,
                      startup_metrics |-> m, seeded |-> benchmark_cache.loaded,
                      results |-> benchmark_startup(benchmark_cache, m, sector, stage)]
          /\ UNCHANGED <<benchmark_cache, load, progress_data, task>>

\* a call of analyze_startup_comprehensive
AnalyzeStartupComprehensive ==
    /\ call.op = "idle"
    /\ \E insights_response \in InsightResponses, risk_outcome \in RiskOutcomes,
          cac \in {NoCac, Cac(0), Cac(10000), Cac(60000)}, recommendation_response \in RecommendationResponses,
          custom_weightings \in AnalysisWeightings :
          /\ call' = [op |-> "analyze_startup_comprehensive",
                      insights_response |-> insights_response,
                      risk_outcome |-> risk_outcome,
                      cac |-> cac,
                      recommendation_response |-> recommendation_response,
                      custom_weightings |-> custom_weightings,
                      seeded |-> benchmark_cache.loaded,
                      out |-> analyze_startup_comprehensive(
                                  benchmark_cache, insights_response, risk_outcome,
                                  cac, recommendation_response, custom_weightings)]
          /\ UNCHANGED <<benchmark_cache, load, progress_data, task>>

\* a call of assess_startup_risks
AssessStartupRisks ==
    /\ call.op = "idle"
    /\ \E collected \in AssessedFlagSeqs(MaxFlags) :
          /\ call' = [op |-> "assess_startup_risks", collected |-> collected,
                      out |-> assess_startup_risks(collected)]
          /\ UNCHANGED <<benchmark_cache, load, progress_data, task>>

\* a call of _calculate_risk_penalty
RiskPenalty ==
    /\ call.op = "idle"
    /\ \E risk_flags \in FlagSeqs(Severities, MaxFlags) :
          /\ call' = [op |-> "risk_penalty", risk_flags |-> risk_flags,
                      penalty |-> AIAnalyzer_calculate_risk_penalty(risk_flags)]
          /\ UNCHANGED <<benchmark_cache, load, progress_data, task>>

\* a call of _calculate_overall_score
CalculateOverallScore ==
    /\ call.op = "idle"
    /\ \E scores \in ScoreInputs, custom_weightings \in WeightInputs,
          risk_flags \in FlagSeqs({"critical", "low"}, MaxFlags) :
          /\ call' = [op |-> "overall_score", scores |-> scores,
                      custom_weightings |-> custom_weightings,
                      risk_flags |-> risk_flags,
                      out |-> AIAnalyzer_calculate_overall_score(
                                  scores, risk_flags, custom_weightings)]
          /\ UNCHANGED <<benchmark_cache, load, progress_data, task>>

\* a call of create_custom_thesis
CreateCustomThesis ==
    /\ call.op = "idle"
    /\ \E scoring_preferences \in PreferenceDicts(MaxCriteria) :
          /\ HasDistinctCriteria(scoring_preferences)
          /\ call' = [op |-> "create_custom_thesis",
                      scoring_preferences |-> scoring_preferences,
                      thesis |-> create_custom_thesis(scoring_preferences)]
          /\ UNCHANGED <<benchmark_cache, load, progress_data, task>>

\* a call of compare_multiple_startups
CompareMultipleStartups ==
    /\ call.op = "idle"
    /\ \E pair \in ComparePairs, startups_data \in StartupSeqs(MaxStartups) :
          /\ call' = [op |-> "compare_multiple_startups",
                      sector |-> pair[1], stage |-> pair[2],
                      startups_data |-> startups_data,
                      seeded |-> benchmark_cache.loaded,
                      out |-> compare_multiple_startups(
                                  benchmark_cache, startups_data, pair[1], pair[2])]
          /\ UNCHANGED <<benchmark_cache, load, progress_data, task>>

\* a call of get_peer_analysis
GetPeerAnalysis ==
    /\ call.op = "idle"
    /\ \E sector \in Sectors, stage \in Stages, m \in MetricDicts(MaxMetrics) :
          /\ HasDistinctKeys(m)
          /\ call' = [op |-> "get_peer_analysis", sector |-> sector, stage |-> stage,
                      startup_metrics |-> m, seeded |-> benchmark_cache.loaded,
                      out |-> get_peer_analysis(benchmark_cache, m, sector, stage)]
          /\ UNCHANGED <<benchmark_cache, load, progress_data, task>>

\* the caller has consumed the result of the finished call
Return ==
    /\ call.op # "idle"
    /\ call' = Idle
    /\ UNCHANGED <<benchmark_cache, load, progress_data, task>>

Next ==
    \/ RankService
    \/ RankRoute
    \/ RateService
    \/ RateRoute
    \/ RateAnalyzer
    \/ CreateSampleBenchmarkData
    \/ GetSectorBenchmarks
    \/ GetBenchmarkMetrics
    \/ CompareStartupToBenchmarks
    \/ BenchmarkStartup
    \/ RiskPenalty
    \/ CalculateOverallScore
    \/ CreateCustomThesis
    \/ AnalyzeStartupComprehensive
    \/ AssessStartupRisks
    \/ CompareMultipleStartups
    \/ GetPeerAnalysis
    \/ Return

Spec == Init /\ [][Next]_vars

(* ------------- load and lookups interleaved, statement by statement ------ *)

\* _create_sample_benchmark_data starts (the initial load, or a reload)
LoadBegin ==
    /\ load.pc = "idle"
    /\ load' = [pc |-> "building", benchmark_data |-> <<>>]
    /\ UNCHANGED <<benchmark_cache, call, progress_data, task>>

\* the next row of the benchmark_data list literal is built
LoadBuildRow ==
    /\ load.pc = "building"
    /\ Len(load.benchmark_data) < Len(SampleBenchmarkData)
    /\ LET benchmark_data ==
               Append(load.benchmark_data,
                      SampleBenchmarkData[Len(load.benchmark_data) + 1])
       IN  /\ load' = [load EXCEPT !.benchmark_data = benchmark_data]
           /\ benchmark_cache' = CacheWhileBuilding(benchmark_cache, benchmark_data)
    /\ UNCHANGED <<call, progress_data, task>>

\* self.benchmark_cache = benchmark_data
LoadAssign ==
    /\ load.pc = "building"
    /\ Len(load.benchmark_data) = Len(SampleBenchmarkData)
    /\ benchmark_cache' = CacheAssigned(load.benchmark_data)
    /\ load' = NotLoading
    /\ UNCHANGED <<call, progress_data, task>>

\* a lookup evaluates self.benchmark_cache; rows_built records how far a
\* running load has got at that moment
LookupRead ==
    /\ call.op = "idle"
    /\ \E sector \in Sectors, stage \in Stages, metrics \in LookupMetrics :
          call' = [op |-> "get_sector_benchmarks_reading", sector |-> sector,
                   stage |-> stage, metrics |-> metrics,
                   rows_built |-> Len(load.benchmark_data),
                   snapshot |-> ReadCache(benchmark_cache)]
    /\ UNCHANGED <<benchmark_cache, load, progress_data, task>>

\* the lookup filters the object it read and returns
LookupFilter ==
    /\ call.op = "get_sector_benchmarks_reading"
    /\ call' = [op |-> "get_sector_benchmarks", sector |-> call.sector,
                stage |-> call.stage, metrics |-> call.metrics,
                rows_built |-> call.rows_built,
                seeded |-> call.snapshot.loaded,
                out |-> get_sector_benchmarks(call.snapshot, call.sector,
                                              call.stage, call.metrics.names)]
    /\ UNCHANGED <<benchmark_cache, load, progress_data, task>>

LoadNext ==
    \/ LoadBegin
    \/ LoadBuildRow
    \/ LoadAssign
    \/ LookupRead
    \/ LookupFilter
    \/ Return

LoadSpec == Init /\ [][LoadNext]_vars

(* ------------------ progress tracking of document processing ------------- *)

\* an update_progress call made by the processing of another document;
\* entry is that document's tracker entry when the call has finished
UpdateProgress ==
    /\ call.op = "idle"
    /\ \E progress \in ProgressValues, message \in {"", "Processing failed"},
          status \in {"processing", "error", "completed"} :
          LET data == update_progress(progress_data, OtherDocument, progress,
                                      message, status)
          IN  /\ progress_data' = data
              /\ call' = [op |-> "update_progress", document_id |-> OtherDocument,
                          progress |-> progress, message |-> message,
                          status |-> status, entry |-> data[OtherDocument]]
    /\ UNCHANGED <<benchmark_cache, load, task>>

\* process_document_background starts tracking and calls process_document
TaskStart ==
    /\ task.pc \in {"idle", "finished"}
    /\ \E scenario \in Scenarios :
          task' = [pc |-> "processing",
                   todo |-> ProcessDocument(scenario).callbacks,
                   succeeded |-> ProcessDocument(scenario).succeeded]
    /\ progress_data' = start_tracking(progress_data, TaskDocument, 100)
    /\ UNCHANGED <<benchmark_cache, call, load>>

\* process_document awaits its next progress callback
TaskCallback ==
    /\ task.pc = "processing"
    /\ task.todo # <<>>
    /\ LET cb == Head(task.todo)
       IN  progress_data' = update_progress(progress_data, TaskDocument,
                                            cb.progress, cb.message, cb.status)
    /\ task' = [task EXCEPT !.todo = Tail(task.todo)]
    /\ UNCHANGED <<benchmark_cache, call, load>>

\* process_document has returned its result; the task marks the tracking
\* complete with success=True
TaskComplete ==
    /\ task.pc = "processing"
    /\ task.todo = <<>>
    /\ progress_data' = complete_tracking(progress_data, TaskDocument, TRUE,
                                          "Processing completed successfully")
    /\ task' = [task EXCEPT !.pc = "saving"]
    /\ UNCHANGED <<benchmark_cache, call, load>>

\* the result file is written, or the write fails and is logged
TaskSave ==
    /\ task.pc = "saving"
    /\ task' = [task EXCEPT !.pc = "finished"]
    /\ UNCHANGED <<benchmark_cache, call, load, progress_data>>

TrackerNext ==
    \/ UpdateProgress
    \/ TaskStart
    \/ TaskCallback
    \/ TaskComplete
    \/ TaskSave
    \/ Return

TrackerSpec == Init /\ [][TrackerNext]_vars

(* ------------------------ Percentile Ranker claims --------------------- *)

IsRank == call.op = "rank"
RankReturned == IsRank /\ ~call.out.raised
StrictlyIncreasing ==
    call.p25 < call.p50 /\ call.p50 < call.p75 /\ call.p75 < call.p90

\* the ranker a finished rank call used, applied to another raw value
RankOf(v) ==
    IF call.impl = "service"
    THEN BenchmarkingService_calculate_percentile_rank(
             v, call.p25, call.p50, call.p75, call.p90)
    ELSE calculate_percentile_rank(v, call.p25, call.p50, call.p75, call.p90)

\* C1: on a distribution 0 < p25 < p50 < p75 < p90 both rankers return the
\* five-segment value (each equation is the segment's formula cleared of its
\* denominators), and with p25 <= 0 a value v <= p25 ranks 0.0.
C1_FiveSegments ==
    IsRank =>
        LET v == call.value
            p25 == call.p25
            p50 == call.p50
            p75 == call.p75
            p90 == call.p90
            n == call.out.value.num
            d == call.out.value.den
        IN  /\ (0 < p25 /\ StrictlyIncreasing) =>
                /\ ~call.out.raised
                /\ (v <= p25) => (4 * p25 * n = v * d)
                /\ (p25 < v /\ v <= p50) =>
                       (4 * (p50 - p25) * n = d * ((p50 - p25) + (v - p25)))
                /\ (p50 < v /\ v <= p75) =>
                       (4 * (p75 - p50) * n = d * (2 * (p75 - p50) + (v - p50)))
                /\ (p75 < v /\ v <= p90) =>
                       (20 * (p90 - p75) * n = d * (15 * (p90 - p75) + 3 * (v - p75)))
                /\ (v > p90 /\ v - p90 >= p90) => (n = d)
                /\ (v > p90 /\ v - p90 < p90) =>
                       (10 * p90 * n = d * (9 * p90 + (v - p90)))
            /\ (p25 <= 0 /\ v <= p25) => (~call.out.raised /\ n = 0)

\* a route-ranker call strictly inside the p75..p90 segment of a positive
\* strict distribution, ranked 0.75 + 0.15 * (1/2)
C1_Witness ==
    /\ IsRank /\ call.impl = "route"
    /\ 0 < call.p25 /\ StrictlyIncreasing
    /\ call.p75 < call.value /\ call.value < call.p90
    /\ call.out = Returned(Rat(33, 40))

\* C2 (as stated): on every non-decreasing distribution a raw value equal to
\* p25, p50, p75 or p90 ranks exactly 0.25, 0.50, 0.75 or 0.90.
C2_ExactAtEveryPoint ==
    (IsRank /\ call.impl = "service") =>
        /\ (call.value = call.p25) => call.out = Returned(Rat(1, 4))
        /\ (call.value = call.p50) => call.out = Returned(Rat(1, 2))
        /\ (call.value = call.p75) => call.out = Returned(Rat(3, 4))
        /\ (call.value = call.p90) => call.out = Returned(Rat(9, 10))

\* C2 (amended): a raw value equal to p25 ranks 0.25 when p25 > 0 and 0.0 when
\* p25 <= 0; a raw value equal to p50, p75 or p90 ranks 0.50, 0.75 or 0.90
\* when that point is strictly greater than the point below it.
C2_ExactAtDistinctPoints ==
    (IsRank /\ call.impl = "service") =>
        /\ (call.value = call.p25 /\ call.p25 > 0) => call.out = Returned(Rat(1, 4))
        /\ (call.value = call.p25 /\ call.p25 <= 0) => call.out = Returned(Rat(0, 1))
        /\ (call.value = call.p50 /\ call.p25 < call.p50) =>
               call.out = Returned(Rat(1, 2))
        /\ (call.value = call.p75 /\ call.p50 < call.p75) =>
               call.out = Returned(Rat(3, 4))
        /\ (call.value = call.p90 /\ call.p75 < call.p90) =>
               call.out = Returned(Rat(9, 10))

\* a service-ranker call at the p90 of a distribution whose p25 is not positive
C2_Witness ==
    /\ IsRank /\ call.impl = "service"
    /\ call.p25 <= 0 /\ call.p75 < call.p90 /\ call.value = call.p90
    /\ call.out = Returned(Rat(9, 10))

\* C3: for a fixed non-decreasing distribution of any sign the ranker is
\* non-decreasing in the raw value wherever it returns.
C3_Monotone ==
    RankReturned =>
        \A v1 \in Values :
            (v1 <= call.value /\ ~RankOf(v1).raised) =>
                RLeq(RankOf(v1).value, call.out.value)

\* C4: every returned rank lies in [0, 1].
C4_RankInUnitInterval ==
    RankReturned =>
        /\ 0 <= call.out.value.num
        /\ call.out.value.num <= call.out.value.den

\* C5: a raw value <= 0 against a distribution with p25 > 0 ranks 0.
C5_NonPositiveValueRanksZero ==
    (IsRank /\ call.impl = "service" /\ call.value <= 0 /\ call.p25 > 0) =>
        call.out = Returned(Rat(0, 1))

\* C6: a raw value above p90 ranks in (0.90, 1.0], and ranks 1.0 exactly when
\* it is at least 2*p90.
C6_AboveP90 ==
    (IsRank /\ call.impl = "service" /\ call.value > call.p90) =>
        /\ ~call.out.raised
        /\ RLt(Rat(9, 10), call.out.value)
        /\ RLeq(call.out.value, Rat(1, 1))
        /\ (call.out.value = Rat(1, 1)) <=> (call.value >= 2 * call.p90)

\* C7: with p90 <= 0 a raw value above p90 does not divide by zero and ranks 1.0.
C7_NonPositiveP90RanksOne ==
    (IsRank /\ call.p90 <= 0 /\ call.value > call.p90) =>
        call.out = Returned(Rat(1, 1))

\* C8: on a distribution with an equal adjacent pair of points the ranker
\* returns a rank for every raw value and raises no division-by-zero fault.
C8_DegenerateNeverRaises ==
    (/\ IsRank /\ call.impl = "service"
     /\ (call.p25 = call.p50 \/ call.p50 = call.p75 \/ call.p75 = call.p90)) =>
        ~call.out.raised

(* ---------------------- Performance Classifier claims ------------------- *)

IsRate == call.op = "rate"

\* C9: each of the three classifiers maps a rank r to the one rating whose
\* bucket holds r, lower bounds inclusive (r >= 0.90 Excellent, 0.75 <= r <
\* 0.90 Above Average, 0.50 <= r < 0.75 Average, 0.25 <= r < 0.50 Below
\* Average, r < 0.25 Poor), so the three agree on every rank.
C9_InclusiveLowerBounds ==
    IsRate =>
        LET n == call.rank.num
            d == call.rank.den
        IN  /\ (10 * n >= 9 * d) <=> (call.rating = "Excellent")
            /\ (4 * n >= 3 * d /\ 10 * n < 9 * d) <=> (call.rating = "Above Average")
            /\ (2 * n >= d /\ 4 * n < 3 * d) <=> (call.rating = "Average")
            /\ (4 * n >= d /\ 2 * n < d) <=> (call.rating = "Below Average")
            /\ (4 * n < d) <=> (call.rating = "Poor")
            /\ call.rating = BenchmarkingService_get_performance_rating(call.rank)
            /\ call.rating = get_performance_rating(call.rank)
            /\ call.rating = AIAnalyzer_calculate_performance_rating(call.rank)

\* the route classifier called on the tie 0.75
C9_Witness ==
    /\ IsRate /\ call.impl = "route"
    /\ call.rank = Rat(3, 4)
    /\ call.rating = "Above Average"

(* ------------------------- benchmark_startup claims -------------------- *)

\* C10: with the seeded table, benchmarking sector "fintech", stage "seed",
\* revenue_growth_rate = 0.45 yields exactly one result: rank 0.6875 (11/16),
\* sector_median 0.30, sector_p75 0.50, sector_p90 0.75, rating "Average".
C10_FintechSeedScenario ==
    (/\ call.op = "benchmark_startup" /\ call.seeded
     /\ call.sector = "fintech" /\ call.stage = "seed"
     /\ call.startup_metrics = <<Metric("revenue_growth_rate", 45)>>) =>
        /\ Len(call.results) = 1
        /\ call.results[1].percentile_rank = Rat(6875, 10000)
        /\ call.results[1].sector_median = 30
        /\ call.results[1].sector_p75 = 50
        /\ call.results[1].sector_p90 = 75
        /\ call.results[1].performance_rating = "Average"

\* the scenario's call has returned its single result
C10_Witness ==
    /\ call.op = "benchmark_startup" /\ call.seeded
    /\ call.sector = "fintech" /\ call.stage = "seed"
    /\ call.startup_metrics = <<Metric("revenue_growth_rate", 45)>>
    /\ Len(call.results) = 1
    /\ call.results[1].startup_value = 45

(* ------------------------- Composite Scorer claims --------------------- *)

IsOverallScore == call.op = "overall_score"
IsRiskPenalty == call.op = "risk_penalty"
IsCustomThesis == call.op = "create_custom_thesis"

\* the weight mapping of the call is a mapping (or None) of numbers
WellFormedWeights ==
    /\ call.custom_weightings.kind # "list"
    /\ \A c \in DOMAIN call.custom_weightings.items :
           call.custom_weightings.items[c].numeric

\* the sum over the six components of score * weights[c]
RECURSIVE SumOfProducts(_, _, _)
SumOfProducts(scores, weights, todo) ==
    IF todo = {} THEN Rat(0, 1)
    ELSE LET c == CHOOSE x \in todo : TRUE
         IN  RAdd(RMul(scores[c], weights[c]),
                  SumOfProducts(scores, weights, todo \ {c}))

RECURSIVE SumOfWeights(_, _)
SumOfWeights(weights, todo) ==
    IF todo = {} THEN Rat(0, 1)
    ELSE LET c == CHOOSE x \in todo : TRUE
         IN  RAdd(weights[c], SumOfWeights(weights, todo \ {c}))

NumberOf(risk_flags, severity) ==
    Cardinality({i \in 1..Len(risk_flags) : risk_flags[i].severity = severity})

\* min(30, 15*critical + 10*high + 5*medium + 2*others)
PenaltyByCounts(risk_flags) ==
    LET critical == NumberOf(risk_flags, "critical")
        high == NumberOf(risk_flags, "high")
        medium == NumberOf(risk_flags, "medium")
        others == Len(risk_flags) - critical - high - medium
        total == 15 * critical + 10 * high + 5 * medium + 2 * others
    IN  Rat(IF total > 30 THEN 30 ELSE total, 1)

Clamp0To100(x) ==
    IF RLt(x, Rat(0, 1)) THEN Rat(0, 1)
    ELSE IF RLt(Rat(100, 1), x) THEN Rat(100, 1)
    ELSE x

\* the weights the scorer applies to the call's mapping
AppliedWeights == [c \in ComponentSet |-> WeightGet(call.custom_weightings, c).value]

\* C11: with a well-formed weight mapping the scorer returns
\* clamp(S - P, 0, 100), S the sum of component_score * weight over the six
\* components and P the risk penalty: the penalty is subtracted after the
\* weighting and the clamp comes last.
C11_ClampOfWeightedSumMinusPenalty ==
    (IsOverallScore /\ WellFormedWeights) =>
        call.out = Score(Clamp0To100(
            RAdd(SumOfProducts(call.scores, AppliedWeights, ComponentSet),
                 RNeg(PenaltyByCounts(call.risk_flags)))))

\* the repository's component scores, default weights, one critical and one
\* low flag: 77.25 - 17 = 60.25
C11_Witness ==
    /\ IsOverallScore
    /\ call.scores = [c \in ComponentSet |-> StubScore(c)]
    /\ call.custom_weightings = NoWeightings
    /\ call.risk_flags = <<RiskFlag("critical"), RiskFlag("low")>>
    /\ call.out = Score(Rat(241, 4))

\* C12: whatever the component scores, the weight mapping (negative weights,
\* weights summing to more than 1) and the risk flags, the scorer returns a
\* score in [0, 100].
C12_OverallScoreInRange ==
    IsOverallScore =>
        /\ ~call.out.raised
        /\ RLeq(Rat(0, 1), call.out.score)
        /\ RLeq(call.out.score, Rat(100, 1))

\* six scores of 150 with all six weights 1 and three critical flags:
\* 900 - 30 is clamped to 100
C12_Witness ==
    /\ IsOverallScore
    /\ call.scores = [c \in ComponentSet |-> Rat(150, 1)]
    /\ call.custom_weightings = WeightDict([c \in ComponentSet |-> Number(Rat(1, 1))])
    /\ Len(call.risk_flags) = 3
    /\ call.out = Score(Rat(100, 1))

\* C13: with the default weights and no risk flags, six component scores all
\* equal to s in [0, 100] give overall_score = s.
C13_UniformScoresGiveThatScore ==
    (/\ IsOverallScore
     /\ UsesDefaultWeights(call.custom_weightings)
     /\ call.risk_flags = <<>>
     /\ \A c \in ComponentSet : call.scores[c] = call.scores["financial_health"]
     /\ RLeq(Rat(0, 1), call.scores["financial_health"])
     /\ RLeq(call.scores["financial_health"], Rat(100, 1))) =>
        call.out = Score(call.scores["financial_health"])

\* six scores of 80, no custom weights, no flags: 80
C13_Witness ==
    /\ IsOverallScore
    /\ call.scores = [c \in ComponentSet |-> Rat(80, 1)]
    /\ call.custom_weightings = NoWeightings
    /\ call.risk_flags = <<>>
    /\ call.out = Score(Rat(80, 1))

\* C14: the risk penalty is min(30, 15*critical + 10*high + 5*medium +
\* 2*(low or other)); 0 for no flags, 30 for three critical flags.
C14_PenaltyIsCappedSum ==
    IsRiskPenalty =>
        /\ call.penalty = PenaltyByCounts(call.risk_flags)
        /\ (call.risk_flags = <<>>) => (call.penalty = Rat(0, 1))
        /\ (call.risk_flags =
                <<RiskFlag("critical"), RiskFlag("critical"), RiskFlag("critical")>>) =>
               (call.penalty = Rat(30, 1))

\* three critical flags are penalised 30
C14_Witness ==
    /\ IsRiskPenalty
    /\ call.risk_flags =
           <<RiskFlag("critical"), RiskFlag("critical"), RiskFlag("critical")>>
    /\ call.penalty = Rat(30, 1)

\* the call's mapping is a non-empty dict of numbers that omits a component
OmitsAComponent ==
    /\ IsOverallScore /\ WellFormedWeights
    /\ call.custom_weightings.kind = "dict"
    /\ DOMAIN call.custom_weightings.items # {}
    /\ DOMAIN call.custom_weightings.items # ComponentSet

\* C15 (as stated): a component omitted from a custom weight mapping has
\* weight 0 and contributes nothing to the weighted sum; no error is raised.
C15_OmittedComponentWeighsZero ==
    OmitsAComponent =>
        LET supplied == [c \in ComponentSet |->
                            IF c \in DOMAIN call.custom_weightings.items
                            THEN call.custom_weightings.items[c].value
                            ELSE Rat(0, 1)]
        IN  call.out = Score(Clamp0To100(
                RAdd(SumOfProducts(call.scores, supplied, ComponentSet),
                     RNeg(PenaltyByCounts(call.risk_flags)))))

\* C15 (amended): a component omitted from a non-empty custom weight mapping
\* is given its default weight and contributes component_score * default
\* weight to the weighted sum; no error is raised.
C15_OmittedComponentWeighsDefault ==
    OmitsAComponent =>
        LET completed == [c \in ComponentSet |->
                             IF c \in DOMAIN call.custom_weightings.items
                             THEN call.custom_weightings.items[c].value
                             ELSE DefaultWeight(c)]
        IN  call.out = Score(Clamp0To100(
                RAdd(SumOfProducts(call.scores, completed, ComponentSet),
                     RNeg(PenaltyByCounts(call.risk_flags)))))

\* {"financial_health": 0.5} on six scores of 50: 25 + 0.75 * 50 = 62.5
C15_Witness ==
    /\ OmitsAComponent
    /\ call.scores = [c \in ComponentSet |-> Rat(50, 1)]
    /\ call.custom_weightings =
           WeightDict([c \in {"financial_health"} |-> Number(Rat(1, 2))])
    /\ call.risk_flags = <<>>
    /\ call.out = Score(Rat(125, 2))

\* the raw weights create_custom_thesis collected from the call's preferences
RawThesisTotal == TotalWeight(CollectScoringWeights(call.scoring_preferences))

\* C16 (as stated): the weights the scorer applies sum to 1.0 for the default
\* weights and for every custom mapping, and thesis weights are normalised to
\* sum to 1.0 whenever their raw total is positive.
C16_WeightsAlwaysSumToOne ==
    /\ (IsOverallScore /\ WellFormedWeights) =>
           SumOfWeights(AppliedWeights, ComponentSet) = Rat(1, 1)
    /\ (IsCustomThesis /\ RLt(Rat(0, 1), RawThesisTotal)) =>
           TotalWeight(call.thesis.scoring_weights) = Rat(1, 1)

\* C16 (amended): the applied weights sum to 1.0 when the default weights are
\* used (no custom mapping, or an empty one), and thesis weights are
\* normalised to sum to 1.0 whenever their raw total is positive; a custom
\* mapping is applied as given, without normalisation.
C16_DefaultAndThesisWeightsSumToOne ==
    /\ (IsOverallScore /\ UsesDefaultWeights(call.custom_weightings)) =>
           SumOfWeights(AppliedWeights, ComponentSet) = Rat(1, 1)
    /\ (IsOverallScore /\ WellFormedWeights) =>
           \A c \in DOMAIN call.custom_weightings.items :
               AppliedWeights[c] = call.custom_weightings.items[c].value
    /\ (IsCustomThesis /\ RLt(Rat(0, 1), RawThesisTotal)) =>
           TotalWeight(call.thesis.scoring_weights) = Rat(1, 1)

\* raw thesis weights 1.5 and 0.25 are normalised to 6/7 and 1/7
C16_Witness ==
    /\ IsCustomThesis
    /\ Len(call.thesis.scoring_weights) = 2
    /\ RawThesisTotal = Rat(7, 4)
    /\ call.thesis.scoring_weights[1].weight = Rat(6, 7)
    /\ call.thesis.scoring_weights[2].weight = Rat(1, 7)

\* C17: when the aggregation faults (a weight that is not a number, a weight
\* map that is not a mapping) the scorer raises nothing and returns exactly
\* the fallback 50.0, having logged the error.
C17_FaultFallsBackTo50 ==
    (IsOverallScore /\ ~WellFormedWeights) =>
        /\ ~call.out.raised
        /\ call.out.score = Rat(50, 1)
        /\ call.out.error \in {"TypeError", "AttributeError"}

\* a weight map that is not a mapping: AttributeError is logged, 50.0 returned
C17_Witness ==
    /\ IsOverallScore
    /\ call.custom_weightings = NotAMapping
    /\ call.out = Fallback("AttributeError", Rat(50, 1))

(* -------------------------- Peer Comparator claims --------------------- *)

IsCompare == call.op = "compare_multiple_startups"
IsPeerAnalysis == call.op = "get_peer_analysis"

\* the seeded rows for the call's sector and stage and a metric name, by index
DistributionsOf(metric_name) ==
    {i \in 1..Len(SampleBenchmarkData) :
        /\ call.seeded
        /\ SampleBenchmarkData[i].sector = Lower(call.sector)
        /\ SampleBenchmarkData[i].stage = Lower(call.stage)
        /\ SampleBenchmarkData[i].metric_name = metric_name}

\* the supplied metrics that have a matching distribution, in supplied order
MatchedMetrics(metrics) ==
    LET HasDistribution(m) == DistributionsOf(m.name) # {}
    IN  SelectSeq(metrics, HasDistribution)

\* the rank of a matched metric against its distribution
RankAgainstDistribution(m) ==
    LET row == SampleBenchmarkData[CHOOSE i \in DistributionsOf(m.name) :
                   \A j \in DistributionsOf(m.name) : i <= j]
    IN  BenchmarkingService_calculate_percentile_rank(
            m.value, row.p25, row.p50, row.p75, row.p90).value

RECURSIVE SumOfMatchedRanks(_)
SumOfMatchedRanks(matched) ==
    IF matched = <<>> THEN Rat(0, 1)
    ELSE RAdd(RankAgainstDistribution(Head(matched)),
              SumOfMatchedRanks(Tail(matched)))

\* C18: every reported startup has one benchmark entry for each supplied
\* metric with a matching distribution and none for the others, and its
\* aggregate percentile times the number of matched metrics is the sum of
\* their ranks (the aggregate is their arithmetic mean).
C18_AggregateIsMeanOfMatched ==
    IsCompare =>
        \A k \in 1..Len(call.out.comparison_results) :
            LET e == call.out.comparison_results[k]
                matched == MatchedMetrics(e.metrics)
            IN  /\ Len(e.benchmarks) = Len(matched)
                /\ \A i \in 1..Len(matched) :
                       /\ e.benchmarks[i].metric_name = Title(matched[i].name)
                       /\ e.benchmarks[i].percentile_rank =
                              RankAgainstDistribution(matched[i])
                /\ (matched # <<>>) =>
                       RMul(e.overall_percentile, Rat(Len(matched), 1)) =
                           SumOfMatchedRanks(matched)

\* a startup supplying revenue_growth_rate 0.45 and the unmatched burn_rate
\* is reported with one benchmark entry and aggregate 0.6875
C18_Witness ==
    /\ IsCompare /\ call.seeded /\ call.sector = "fintech"
    /\ Len(call.out.comparison_results) >= 1
    /\ call.out.comparison_results[1].metrics =
           <<Metric("revenue_growth_rate", 45), Metric("burn_rate", 0)>>
    /\ Len(call.out.comparison_results[1].benchmarks) = 1
    /\ call.out.comparison_results[1].overall_percentile = Rat(11, 16)

\* C19: a startup none of whose metrics has a matching distribution (no
\* metrics, unknown sector or stage, cache not yet seeded) gets aggregate
\* percentile exactly 0.5, in the comparison and in the peer analysis.
C19_NoMatchIsNeutral ==
    /\ IsCompare =>
           \A k \in 1..Len(call.out.comparison_results) :
               LET e == call.out.comparison_results[k]
               IN  (MatchedMetrics(e.metrics) = <<>>) =>
                       (/\ e.overall_percentile = Rat(1, 2)
                        /\ e.percentile_rank = Rat(1, 2))
    /\ IsPeerAnalysis =>
           ((MatchedMetrics(call.startup_metrics) = <<>>) =>
                call.out.overall_percentile = Rat(1, 2))

\* three startups, the first with only an unmatched metric: it is reported
\* at 0.5 next to a startup with matched metrics
C19_Witness ==
    /\ IsCompare /\ call.seeded /\ call.sector = "fintech"
    /\ Len(call.out.comparison_results) = 3
    /\ call.out.comparison_results[1].metrics = <<Metric("burn_rate", 45)>>
    /\ call.out.comparison_results[1].overall_percentile = Rat(1, 2)
    /\ call.out.comparison_results[2].overall_percentile = Rat(23, 40)

\* the aggregate percentile of the i-th input startup
InputAggregate(i) ==
    LET matched == MatchedMetrics(call.startups_data[i].metrics)
    IN  IF matched = <<>> THEN Rat(1, 2)
        ELSE RDiv(SumOfMatchedRanks(matched), Rat(Len(matched), 1))

\* the rank reported for the i-th input startup, under its startup_id
InputRank(i) ==
    LET k == CHOOSE x \in 1..Len(call.out.comparison_results) :
                 call.out.comparison_results[x].startup_id =
                     StartupId(call.startups_data[i])
    IN  call.out.comparison_results[k].rank

\* C20: of two input startups the one with the strictly higher aggregate gets
\* the lower-numbered rank, and with equal aggregates the one earlier in the
\* input sequence gets the lower-numbered rank.
C20_RanksDescendingTiesByInputOrder ==
    IsCompare =>
        \A i \in 1..Len(call.startups_data) : \A j \in 1..Len(call.startups_data) :
            /\ RLt(InputAggregate(j), InputAggregate(i)) => (InputRank(i) < InputRank(j))
            /\ (InputAggregate(i) = InputAggregate(j) /\ i < j) =>
                   (InputRank(i) < InputRank(j))

\* the matched metrics whose rank satisfies a test, with the rank, as the
\* (metric, percentile, value) triples a strengths / weaknesses list reports
PeerTriples(metrics, Test(_)) ==
    LET Selected(m) == Test(RankAgainstDistribution(m))
        chosen == SelectSeq(MatchedMetrics(metrics), Selected)
    IN  [i \in 1..Len(chosen) |->
            <<Title(chosen[i].name), RankAgainstDistribution(chosen[i]),
              chosen[i].value>>]

ReportedTriples(items) ==
    [i \in 1..Len(items) |->
        <<items[i].metric, items[i].percentile, items[i].value>>]

AtLeastThreeQuarters(r) == RGeq(r, Rat(3, 4))
AtMostOneQuarter(r) == RLeq(r, Rat(1, 4))

\* C21: in a peer analysis the strengths are exactly the benchmarked metrics
\* with rank >= 0.75, the weaknesses exactly those with rank <= 0.25, and no
\* metric is in both lists.
C21_StrengthsAndWeaknesses ==
    IsPeerAnalysis =>
        /\ ReportedTriples(call.out.strengths) =
               PeerTriples(call.startup_metrics, AtLeastThreeQuarters)
        /\ ReportedTriples(call.out.weaknesses) =
               PeerTriples(call.startup_metrics, AtMostOneQuarter)
        /\ \A i \in 1..Len(call.out.strengths) :
               \A j \in 1..Len(call.out.weaknesses) :
                   call.out.strengths[i].metric # call.out.weaknesses[j].metric

\* employee_count at its p75 (rank exactly 0.75) is a strength and
\* gross_margin at its p25 (rank exactly 0.25) a weakness
C21_Witness ==
    /\ IsPeerAnalysis /\ call.seeded
    /\ Len(call.out.strengths) = 1 /\ Len(call.out.weaknesses) = 1
    /\ call.out.strengths[1].metric = "Employee Count"
    /\ call.out.strengths[1].percentile = Rat(3, 4)
    /\ call.out.weaknesses[1].metric = "Gross Margin"
    /\ call.out.weaknesses[1].percentile = Rat(1, 4)

(* ------------------------ Benchmark Repository claims ------------------ *)

IsLookup == call.op = "get_sector_benchmarks"

\* the stored distributions at the time of the call
StoredAtCall == IF call.seeded THEN SampleBenchmarkData ELSE <<>>

\* stored distributions of the requested pair, compared case-insensitively
StoredForPair ==
    LET InPair(b) == /\ Lower(b.sector) = Lower(call.sector)
                     /\ Lower(b.stage) = Lower(call.stage)
    IN  SelectSeq(StoredAtCall, InPair)

StoredForPairAndNames ==
    LET Requested(b) == b.metric_name \in call.metrics.names
    IN  SelectSeq(StoredForPair, Requested)

\* C22: a lookup returns exactly the stored distributions of the requested
\* sector and stage (case-insensitively) and, whenever a metric list is
\* given, only those whose metric_name is in it; an unknown pair gives the
\* empty sequence.
C22_LookupFiltersByGivenMetrics ==
    IsLookup =>
        call.out = IF call.metrics.given THEN StoredForPairAndNames
                   ELSE StoredForPair

\* C22 as the code has it: the metric filter applies when the given list is
\* non-empty; None and the empty list both return every distribution of the
\* pair.
C22_LookupFiltersByNonEmptyMetrics ==
    IsLookup =>
        call.out = IF call.metrics.given /\ call.metrics.names # {}
                   THEN StoredForPairAndNames
                   ELSE StoredForPair

\* a lookup for ("FinTech", "SEED") filtered to gross_margin returns that
\* one stored distribution
C22_Witness ==
    /\ IsLookup /\ call.seeded
    /\ call.sector = "FinTech" /\ call.stage = "SEED"
    /\ call.metrics = MetricList({"gross_margin"})
    /\ call.out = <<Row("fintech", "seed", "gross_margin", 45, 65, 80, 90, 180)>>

WholeTable == [loaded |-> TRUE, rows |-> SampleBenchmarkData]

\* C23: while the table is loaded or reloaded and lookups run in between,
\* the cache and every object a lookup has read is either the old state
\* (not assigned, or the complete old table) or the complete new table, and
\* a finished lookup returns the filtered complete table, or the empty
\* sequence when it read before the first assignment.
C23_LookupSeesOldOrNewTable ==
    /\ benchmark_cache \in {NotLoaded, WholeTable}
    /\ (call.op = "get_sector_benchmarks_reading") =>
           call.snapshot \in {NotLoaded, WholeTable}
    /\ IsLookup =>
           call.out = IF ~call.seeded THEN <<>>
                      ELSE IF call.metrics.names # {} THEN StoredForPairAndNames
                      ELSE StoredForPair

\* a lookup that read the cache while a reload had built 10 of the 21 rows
\* returns all five fintech/seed distributions
C23_Witness ==
    /\ IsLookup /\ call.seeded /\ call.rows_built = 10
    /\ call.sector = "fintech" /\ call.stage = "seed"
    /\ call.metrics = NoMetrics
    /\ Len(call.out) = 5

(* --------------------------- benchmarks route claims ------------------- *)

IsCompareRoute == call.op = "compare_startup_to_benchmarks"

\* no supplied metric has a mock benchmark
NoRouteMatch ==
    \A i \in 1..Len(call.startup_metrics) :
        LowerKey(call.startup_metrics[i].name) \notin
            {"revenue_growth_rate_(yoy)", "customer_acquisition_cost",
             "monthly_recurring_revenue", "gross_margin", "employee_count"}

\* C24: a compare request whose metrics have no matching benchmark gets a
\* normal response (status 200), never HTTP 500.
C24_NoMatchIsNormalResponse ==
    (IsCompareRoute /\ NoRouteMatch) => call.out.status = 200

(* ---------------------- comprehensive analysis claims ------------------ *)

IsAnalysis == call.op = "analyze_startup_comprehensive"

\* C25: a comprehensive analysis never raises and returns an analysis whose
\* overall score is in [0, 100], whatever the insight query, the risk
\* assessment, the benchmarking and the recommendation query return or raise.
C25_AnalysisAlwaysReturns ==
    IsAnalysis =>
        /\ ~call.out.raised
        /\ RLeq(Rat(0, 1), call.out.overall_score)
        /\ RLeq(call.out.overall_score, Rat(100, 1))

(* -------------------------- risk assessment claims --------------------- *)

IsRiskAssessment == call.op = "assess_startup_risks"

\* critical > high > medium > low
SeverityLevel(severity) ==
    CASE severity = "critical" -> 4
      [] severity = "high" -> 3
      [] severity = "medium" -> 2
      [] severity = "low" -> 1

\* C26: in the returned list every flag of a more severe level precedes
\* every flag of a less severe level, and among flags of equal severity a
\* flag with higher confidence precedes one with lower confidence.
C26_SortedBySeverityThenConfidence ==
    IsRiskAssessment =>
        \A i \in 1..Len(call.out) : \A j \in 1..Len(call.out) :
            (i < j) =>
                /\ SeverityLevel(call.out[i].severity) >=
                       SeverityLevel(call.out[j].severity)
                /\ (call.out[i].severity = call.out[j].severity) =>
                       call.out[i].confidence >= call.out[j].confidence

(* --------------------------- progress tracker claims ------------------- *)

IsUpdate == call.op = "update_progress"

\* C27: after update_progress with a negative progress the entry has status
\* "error", error set to the message and completed = true; after every
\* other call the stored progress is in [0, 100] and completed is true
\* exactly when the stored progress is 100.
C27_NegativeProgressMarksError ==
    IsUpdate =>
        IF call.progress < 0
        THEN /\ call.entry.status = "error"
             /\ call.entry.error = call.message
             /\ call.entry.completed
        ELSE /\ call.entry.progress \in 0..100
             /\ call.entry.completed <=> (call.entry.progress = 100)

\* C28: when the background task has finished, the entry of its document is
\* "completed" with progress 100 only if processing succeeded, and after a
\* failed processing it has status "error" and completed = true.
C28_FailedProcessingEndsAsError ==
    (task.pc = "finished") =>
        LET entry == progress_data[TaskDocument]
        IN  /\ (entry.status = "completed" /\ entry.progress = 100) => task.succeeded
            /\ ~task.succeeded => (entry.status = "error" /\ entry.completed)

(* ---------------------- Peer Comparator claims, continued --------------- *)

\* C29: the comparison has one result entry per supplied startup and the
\* assigned ranks are exactly 1..N, each used once, with N the reported
\* total_startups -- also when startups share or omit their startup_id.
C29_OneEntryAndRankPerStartup ==
    IsCompare =>
        LET results == call.out.comparison_results
        IN  /\ Len(results) = Len(call.startups_data)
            /\ {results[i].rank : i \in 1..Len(results)} = 1..call.out.total_startups
            /\ \A i \in 1..Len(results) : \A j \in 1..Len(results) :
                   (results[i].rank = results[j].rank) => (i = j)

(* ---------------------- benchmark_startup fault claims ------------------ *)

IsBenchmark == call.op = "benchmark_startup"

\* the matched metrics the ranker can rank: with the seeded table it faults
\* only on a value that is not a number
RankedMetrics(metrics) ==
    LET CanBeRanked(m) == m.numeric
    IN  SelectSeq(MatchedMetrics(metrics), CanBeRanked)

\* C30: a fault while ranking one metric affects only that metric:
\* benchmark_startup still returns the results of the other matching
\* metrics, and the aggregate the comparison computes from them is the mean
\* of those ranks, not the neutral 0.5.
C30_FaultAffectsOnlyThatMetric ==
    IsBenchmark =>
        LET ranked == RankedMetrics(call.startup_metrics)
        IN  /\ Len(call.results) = Len(ranked)
            /\ \A i \in 1..Len(ranked) :
                   /\ call.results[i].metric_name = Title(ranked[i].name)
                   /\ call.results[i].percentile_rank =
                          RankAgainstDistribution(ranked[i])
            /\ (ranked # <<>>) =>
                   RMul(OverallPercentile(call.results), Rat(Len(ranked), 1)) =
                       SumOfMatchedRanks(ranked)

====
